---------------------------- MODULE Spec2Model ----------------------------
(***************************************************************************)
(* Model of the BrowserAGENT orchestration engine                          *)
(* (likhonsdev/controllable-browser):                                      *)
(*   src/src/web/flask_server.py   process_user_command and its globals    *)
(*   src/src/ai/*.py               the providers' create_action_plan,      *)
(*                                  generate_response, process_content     *)
(*   src/src/browser/engine.py     PlaywrightBrowser / RequestsBrowser     *)
(*   src/src/utils/logger.py       the log_* helpers and their trace store *)
(*                                                                         *)
(* Python values are tagged records [t, v]; a Python string is a sequence  *)
(* of chunks, where the two-character text "//" is always a chunk of its   *)
(* own, so that prefix tests and the comment-stripping regular expression  *)
(* act on the text and not on an opaque name.                              *)
(***************************************************************************)
EXTENDS Integers, Sequences, FiniteSets, TLC

(***************************************************************************)
(* Bounds of the model.                                                    *)
(***************************************************************************)
\* longest action list a provider response carries
MaxPlanLen == 2
\* number of commands submitted one after the other
MaxCommands == 2
MaxSwitches == 2
MaxDeviceOps == 2
MaxCreates == 2

(***************************************************************************)
(* Python values.                                                          *)
(***************************************************************************)
PyNone == [t |-> "none", v |-> <<>>]
PyStr(chunks) == [t |-> "str", v |-> chunks]
PyInt(digits) == [t |-> "int", v |-> <<digits>>]
PyList(items) == [t |-> "list", v |-> items]
PyDict(fields) == [t |-> "dict", v |-> fields]

S(text) == PyStr(<<text>>)
EmptyStr == PyStr(<<>>)

\* bool(x) for the values of the model
Truthy(x) ==
    CASE x.t = "none" -> FALSE
      [] x.t = "int" -> x.v # <<"0">>
      [] x.t = "str" -> x.v # <<>>
      [] x.t = "list" -> x.v # <<>>
      [] x.t = "dict" -> DOMAIN x.v # {}

\* key in d, for a dict d
HasKey(d, key) == <<key>> \in DOMAIN d.v

\* d.get(key, default)
DictGet(d, key, default) == IF HasKey(d, key) THEN d.v[<<key>>] ELSE default

\* a + b for two str values
Concat(a, b) == PyStr(a.v \o b.v)

(***************************************************************************)
(* Response text: a sequence of lexemes.                                   *)
(***************************************************************************)
\* the markdown code fence (three backquotes)
Fence == [k |-> "fence", s |-> <<"[fence]">>]
Word(w) == [k |-> "word", s |-> <<w>>]
NL == [k |-> "nl", s |-> <<"\n">>]
Slashes == [k |-> "comment", s |-> <<"//">>]
P(c) == [k |-> "punct", s |-> <<c>>]
Lit(chunks) == [k |-> "str", s |-> chunks]
Num(digits) == [k |-> "num", s |-> <<digits>>]
Null == [k |-> "null", s |-> <<"null">>]
Unterminated(chunks) == [k |-> "badstr", s |-> chunks]
EndOfText == [k |-> "eof", s |-> <<>>]

TokAt(text, i) == IF i \in 1..Len(text) THEN text[i] ELSE EndOfText

(***************************************************************************)
(* re.search(r'[fence](?:json)?\s*({.*?})\s*[fence]', text, re.DOTALL)     *)
(***************************************************************************)
IsNL(tok) == tok.k = "nl"
IsPunct(tok, c) == tok.k = "punct" /\ tok.s = <<c>>

\* the first position at or after i that is not whitespace
SkipWs(text, i) ==
    LET rest == {j \in i..Len(text) : ~IsNL(text[j])}
    IN  IF rest = {} THEN Len(text) + 1
        ELSE CHOOSE j \in rest : \A m \in rest : j <= m

\* where the group would start if the pattern matched from position i
GroupStart(text, i) ==
    SkipWs(text, IF TokAt(text, i + 1) = Word("json") THEN i + 2 ELSE i + 1)

\* the ends the group may have, for a match that starts at position i
GroupEnds(text, i) ==
    IF TokAt(text, i) = Fence /\ IsPunct(TokAt(text, GroupStart(text, i)), "{")
    THEN {e \in (GroupStart(text, i) + 1)..Len(text) :
            /\ IsPunct(text[e], "}")
            /\ TokAt(text, SkipWs(text, e + 1)) = Fence}
    ELSE {}

Least(set) == CHOOSE n \in set : \A m \in set : n <= m

\* json_match.group(1), or the whole text when there is no match
json_match(text) ==
    LET starts == {i \in 1..Len(text) : GroupEnds(text, i) # {}}
    IN  IF starts = {} THEN text
        ELSE LET i == Least(starts)
             IN  SubSeq(text, GroupStart(text, i), Least(GroupEnds(text, i)))

(***************************************************************************)
(* re.sub(r'//.*', '', json_str): from every "//" to the end of its line,  *)
(* also when the "//" lies inside a string literal, which is then left     *)
(* open on that line.                                                      *)
(***************************************************************************)
HasSlashes(chunks) == \E n \in 1..Len(chunks) : chunks[n] = "//"
BeforeSlashes(chunks) ==
    SubSeq(chunks, 1, Least({n \in 1..Len(chunks) : chunks[n] = "//"}) - 1)

RECURSIVE StripFrom(_, _, _)
StripFrom(text, i, inComment) ==
    IF i > Len(text) THEN <<>>
    ELSE LET tok == text[i] IN
         IF inComment
         THEN IF IsNL(tok) THEN <<tok>> \o StripFrom(text, i + 1, FALSE)
              ELSE StripFrom(text, i + 1, TRUE)
         ELSE IF tok.k = "comment" THEN StripFrom(text, i + 1, TRUE)
         ELSE IF tok.k \in {"str", "badstr"} /\ HasSlashes(tok.s)
              THEN <<Unterminated(BeforeSlashes(tok.s))>> \o StripFrom(text, i + 1, TRUE)
         ELSE <<tok>> \o StripFrom(text, i + 1, FALSE)

remove_comments(text) == StripFrom(text, 1, FALSE)

(***************************************************************************)
(* json.loads(json_str.strip())                                            *)
(***************************************************************************)
ParseFail == [ok |-> FALSE, val |-> PyNone, nxt |-> 0]
ParseOk(val, nxt) == [ok |-> TRUE, val |-> val, nxt |-> nxt]

RECURSIVE ParseValue(_, _)
RECURSIVE ParseElements(_, _, _)
RECURSIVE ParseMembers(_, _, _)

ParseValue(text, i) ==
    LET tok == TokAt(text, i) IN
    CASE tok.k = "str" -> ParseOk(PyStr(tok.s), i + 1)
      [] tok.k = "num" -> ParseOk(PyInt(tok.s[1]), i + 1)
      [] tok.k = "null" -> ParseOk(PyNone, i + 1)
      [] IsPunct(tok, "[") ->
            IF IsPunct(TokAt(text, i + 1), "]") THEN ParseOk(PyList(<<>>), i + 2)
            ELSE ParseElements(text, i + 1, <<>>)
      [] IsPunct(tok, "{") ->
            IF IsPunct(TokAt(text, i + 1), "}") THEN ParseOk(PyDict(<<>>), i + 2)
            ELSE ParseMembers(text, i + 1, <<>>)
      [] OTHER -> ParseFail

ParseElements(text, i, acc) ==
    LET r == ParseValue(text, i) IN
    IF ~r.ok THEN ParseFail
    ELSE IF IsPunct(TokAt(text, r.nxt), ",")
         THEN ParseElements(text, r.nxt + 1, Append(acc, r.val))
    ELSE IF IsPunct(TokAt(text, r.nxt), "]")
         THEN ParseOk(PyList(Append(acc, r.val)), r.nxt + 1)
    ELSE ParseFail

ParseMembers(text, i, acc) ==
    IF TokAt(text, i).k # "str" \/ ~IsPunct(TokAt(text, i + 1), ":") THEN ParseFail
    ELSE LET r == ParseValue(text, i + 2) IN
         IF ~r.ok THEN ParseFail
         ELSE LET now == (text[i].s :> r.val) @@ acc IN
              IF IsPunct(TokAt(text, r.nxt), ",") THEN ParseMembers(text, r.nxt + 1, now)
              ELSE IF IsPunct(TokAt(text, r.nxt), "}")
                   THEN ParseOk(PyDict(now), r.nxt + 1)
              ELSE ParseFail

\* [ok |-> FALSE] stands for json.JSONDecodeError
json_loads(text) ==
    LET body == SelectSeq(text, LAMBDA tok : ~IsNL(tok))
        r == ParseValue(body, 1)
    IN  IF r.ok /\ r.nxt = Len(body) + 1 THEN r ELSE ParseFail

(***************************************************************************)
(* The trace store of src/utils/logger.py.  An entry carries, next to its  *)
(* type and message, the number of the command that was running when it    *)
(* was appended (history information, not a field of the program).         *)
(***************************************************************************)
Entry(type, message, cmd) == [type |-> type, message |-> message, cmd |-> cmd]

\* The handlers below work on a record st of everything a step may touch:
\*   logs         src.utils.logger.current_task_logs
\*   url, shot    flask_server.last_processed_url, last_screenshot
\*   final        the local final_result
\*   session      the Device Session (current_url, current_response)
\*   calls        history: the provider and device operations invoked
\*   raised       an exception is propagating
\*   cmd, step    history: the running command and the step being dispatched
log_step(st, message) ==
    [st EXCEPT !.logs = Append(@, Entry("info", message, st.cmd))]
log_error(st, message) ==
    [st EXCEPT !.logs = Append(@, Entry("error", message, st.cmd))]
log_browser(st, message) ==
    [st EXCEPT !.logs = Append(@, Entry("browser", message, st.cmd))]
log_ai(st, message) ==
    [st EXCEPT !.logs = Append(@, Entry("ai", message, st.cmd))]

Call(op, step, arg, ok, out, client) ==
    [op |-> op, step |-> step, arg |-> arg, ok |-> ok, out |-> out,
     ai_client |-> client]
Record(st, op, arg, ok, out) ==
    [st EXCEPT !.calls = Append(@, Call(op, st.step, arg, ok, out, st.ai_client))]
Raise(st) == [st EXCEPT !.raised = TRUE]

(***************************************************************************)
(* Providers (gemini.py, openai_provider.py, cohere_provider.py).  The     *)
(* three classes differ in the client call only; resp is what that call    *)
(* produced: [call |-> "raise"] or [call |-> "ok", text |-> <lexemes>].    *)
(***************************************************************************)
ProviderNames == {"gemini", "openai", "cohere"}

AnswerDirectly(question) ==
    PyDict((<<"type">> :> S("answer_directly")) @@ (<<"question">> :> question))

\* {"actions": [{"type": "answer_directly", "question": user_input}]}
FallbackPlan(user_input) ==
    PyDict(<<"actions">> :> PyList(<<AnswerDirectly(user_input)>>))

\* x[:n] raises TypeError for these
Unsliceable(x) == x.t \in {"none", "int", "dict"}
\* len(x) raises TypeError for these
Unsized(x) == x.t \in {"none", "int"}

\* the text after fence extraction and comment removal, as handed to json.loads
normalize(text) == remove_comments(json_match(text))

\* plan_of with handlers that log the failure and return nothing
plan_of_without_fallback(user_input, resp) ==
    IF resp.call = "raise" THEN PyNone
    ELSE LET parsed == json_loads(normalize(resp.text)) IN
         IF ~parsed.ok THEN PyNone
         ELSE IF parsed.val.t # "dict" THEN FallbackPlan(user_input)
         ELSE IF Unsized(DictGet(parsed.val, "actions", PyList(<<>>)))
              THEN FallbackPlan(user_input)
         ELSE parsed.val

\* the value create_action_plan returns
plan_of(user_input, resp) ==
    IF resp.call = "raise" THEN FallbackPlan(user_input)
    ELSE LET parsed == json_loads(normalize(resp.text)) IN
         IF ~parsed.ok THEN FallbackPlan(user_input)
         ELSE IF parsed.val.t # "dict" THEN FallbackPlan(user_input)
         ELSE IF Unsized(DictGet(parsed.val, "actions", PyList(<<>>)))
              THEN FallbackPlan(user_input)
         ELSE parsed.val

\* the trace entries create_action_plan appends
plan_logs(st, user_input, resp) ==
    LET st1 == log_ai(st, "Creating action plan")
        generic == log_error(log_error(st1, "Error creating action plan"), "traceback")
    IN  IF resp.call = "raise" THEN generic
        ELSE LET parsed == json_loads(normalize(resp.text)) IN
             IF ~parsed.ok
             THEN log_error(log_error(st1, "Failed to parse action plan JSON"),
                            "Response was")
             ELSE IF parsed.val.t # "dict" THEN generic
             ELSE IF Unsized(DictGet(parsed.val, "actions", PyList(<<>>))) THEN generic
             ELSE log_ai(st1, "Action plan created")

\* [st, plan]: the state after the call and the value returned
create_action_plan(st, user_input, resp) ==
    [st |-> Record(plan_logs(st, user_input, resp), "create_action_plan",
                   user_input, TRUE, plan_of(user_input, resp)),
     plan |-> plan_of(user_input, resp)]

\* what the model answers for a prompt, and the apology of the except branch
AnswerText(prompt) == PyStr(<<"answer to: ">> \o prompt.v)
ResponseApology == S("I was unable to generate a response due to an error: E")
ProcessedText(content, goal) == PyStr(<<"processed: ">> \o content.v \o <<" for: ">> \o goal.v)
ProcessApology == S("I was unable to process the content due to an error: E")

\* [st, out]; llm is "ok" or "raise", the outcome of the client call
generate_response(st, prompt, llm) ==
    IF Unsliceable(prompt)
    THEN [st |-> Raise(Record(st, "generate_response", prompt, FALSE, PyNone)),
          out |-> PyNone]
    ELSE LET st1 == log_ai(st, "Generating response")
             text == IF prompt.t = "str" THEN AnswerText(prompt) ELSE AnswerText(S("?"))
         IN  IF llm = "ok"
             THEN [st |-> Record(st1, "generate_response", prompt, TRUE, text),
                   out |-> text]
             ELSE [st |-> Record(log_error(st1, "Error generating response"),
                                 "generate_response", prompt, FALSE, ResponseApology),
                   out |-> ResponseApology]

\* the content of a page longer than max_length characters, and its first
\* max_length characters
max_length == 15000
LongText == S("page text of 15001 characters")
TruncatedText == S("page text cut to 15000 characters")
truncate(content) == IF content = LongText THEN TruncatedText ELSE content

process_content(st, content, user_input, processing_goal, llm) ==
    LET st1 == log_ai(st, "Processing content")
        st2 == IF content = LongText THEN log_ai(st1, "Content truncated") ELSE st1
        goal == IF processing_goal.t = "str" THEN processing_goal ELSE S("?")
        text == ProcessedText(truncate(content), goal)
    IN  IF llm = "ok"
        THEN [st |-> Record(st2, "process_content", content, TRUE, text), out |-> text]
        ELSE [st |-> Record(log_error(st2, "Error processing content"),
                            "process_content", content, FALSE, ProcessApology),
              out |-> ProcessApology]

(***************************************************************************)
(* Browsing devices (browser/engine.py).  A device operation returns       *)
(* [st, success, error] or [st, out]; o is the record of what the outside   *)
(* world does during the step (page load, element lookup, model call).     *)
(***************************************************************************)
Playwright == "PlaywrightBrowser"
Requests == "RequestsBrowser"

NewSession == [current_url |-> PyNone, current_response |-> PyNone]

Https == PyStr(<<"https:", "//">>)
Http == PyStr(<<"http:", "//">>)

\* s.startswith(prefix), for str values
StartsWith(s, prefix) ==
    /\ Len(s.v) >= Len(prefix.v)
    /\ SubSeq(s.v, 1, Len(prefix.v)) = prefix.v

\* the URL navigate() requests
normalize_url(url) ==
    IF StartsWith(url, Http) \/ StartsWith(url, Https) THEN url ELSE Concat(Https, url)

Success(st) == [st |-> st, success |-> TRUE, error |-> PyNone]
Failure(st, error) == [st |-> st, success |-> FALSE, error |-> S(error)]

\* o.nav: "ok", "fail" (goto / GET / raise_for_status raises) or "timeout"
\* (Playwright: the page loaded but the network did not settle in time)
navigate(st, browser, url, o) ==
    IF url.t # "str"
    THEN Failure(Record(log_error(st, IF browser = Playwright THEN "Navigation error"
                                      ELSE "RequestsBrowser navigation error"),
                        "navigate", url, FALSE, PyNone),
                 "no attribute startswith")
    ELSE LET target == normalize_url(url)
             st1 == log_browser(st, "Navigating to URL")
             moved == [st1 EXCEPT !.session.current_url = target]
             fetched == [moved EXCEPT !.session.current_response = o.body]
         IN  IF browser = Playwright
             THEN CASE o.nav = "ok" -> Success(Record(moved, "navigate", url, TRUE, target))
                    [] o.nav = "timeout" ->
                        Failure(Record(log_error(moved, "Navigation error"),
                                       "navigate", url, FALSE, target), "timeout")
                    [] OTHER ->
                        Failure(Record(log_error(st1, "Navigation error"),
                                       "navigate", url, FALSE, target), "goto failed")
             ELSE IF o.nav = "ok"
                  THEN Success(Record(fetched, "navigate", url, TRUE, target))
                  ELSE Failure(Record(log_error(st1, "RequestsBrowser navigation error"),
                                      "navigate", url, FALSE, target), "request failed")

\* o.content: the text of the rendered page, PyNone when extraction raises
get_content(st, browser, o) ==
    IF browser = Playwright
    THEN IF o.content = PyNone
         THEN [st |-> Record(log_error(st, "Error getting content"),
                             "get_content", PyNone, FALSE, PyNone),
               out |-> PyNone]
         ELSE [st |-> Record(st, "get_content", PyNone, TRUE, o.content),
               out |-> o.content]
    ELSE IF st.session.current_response = PyNone
         THEN [st |-> Record(log_error(st, "No page has been loaded yet"),
                             "get_content", PyNone, FALSE, PyNone),
               out |-> PyNone]
         ELSE IF o.content = PyNone
              THEN [st |-> Record(log_error(st, "RequestsBrowser content extraction error"),
                                  "get_content", PyNone, FALSE, PyNone),
                    out |-> PyNone]
              ELSE [st |-> Record(st, "get_content", PyNone, TRUE,
                                  st.session.current_response),
                    out |-> st.session.current_response]

\* click with the content-only device following the link, as its docstring
\* has it
click_following_links(st, browser, selector, o) ==
    IF browser = Playwright
    THEN LET st1 == IF o.scroll = "ok" THEN st
                    ELSE log_error(st, "Error scrolling to element")
         IN  IF o.click = "ok"
             THEN Success(Record(st1, "click", selector, TRUE, PyNone))
             ELSE Failure(Record(log_error(st1, "Click error"), "click", selector,
                                 FALSE, PyNone), "click failed")
    ELSE Success(Record(st, "click", selector, TRUE, PyNone))

\* o.scroll, o.click: "ok" or "fail"
click(st, browser, selector, o) ==
    IF browser = Playwright
    THEN LET st1 == IF o.scroll = "ok" THEN st
                    ELSE log_error(st, "Error scrolling to element")
         IN  IF o.click = "ok"
             THEN Success(Record(st1, "click", selector, TRUE, PyNone))
             ELSE Failure(Record(log_error(st1, "Click error"), "click", selector,
                                 FALSE, PyNone), "click failed")
    ELSE Failure(Record(log_error(st, "RequestsBrowser does not support clicking elements"),
                        "click", selector, FALSE, PyNone),
                 "RequestsBrowser does not support clicking elements")

\* o.typing: "ok" or "fail"
type(st, browser, selector, text, o) ==
    IF browser = Playwright
    THEN IF o.typing = "ok"
         THEN Success(Record(st, "type", selector, TRUE, text))
         ELSE Failure(Record(log_error(st, "Type error"), "type", selector, FALSE, text),
                      "type failed")
    ELSE Failure(Record(log_error(st, "RequestsBrowser does not support typing text"),
                        "type", selector, FALSE, text),
                 "RequestsBrowser does not support typing text")

\* static/screenshots/screenshot_<timestamp>.png, the path of a screenshot
\* taken without one
DefaultShot == S("static/screenshots/screenshot_now.png")

\* o.shot: "ok" or "fail"
take_screenshot(st, browser, file_path, o) ==
    IF browser = Playwright
    THEN IF o.shot = "ok"
         THEN LET path == IF Truthy(file_path) THEN file_path ELSE DefaultShot IN
              [st |-> Record(log_browser(st, "Screenshot saved"),
                             "take_screenshot", file_path, TRUE, path),
               out |-> path]
         ELSE [st |-> Record(log_error(st, "Screenshot error"),
                             "take_screenshot", file_path, FALSE, PyNone),
               out |-> PyNone]
    ELSE [st |-> Record(log_error(st, "RequestsBrowser does not support taking screenshots"),
                        "take_screenshot", file_path, FALSE, PyNone),
          out |-> PyNone]

(***************************************************************************)
(* process_user_command (web/flask_server.py): the body of the loop, one   *)
(* operator per branch.  Each returns the record st after the step; a      *)
(* step that raises returns it with st.raised set.                         *)
(***************************************************************************)
DefaultResult == S("Task completed successfully.")
NoProviderResult == S("I couldn't process your request because no AI provider is initialized. Please check your configuration.")
NoPlanResult == S("I couldn't plan how to handle your request. Please try again with a clearer instruction.")
NoContentResult == S("I couldn't extract content from the page.")
ApologyResult == S("I encountered an error while processing your request. Please try again.")
DefaultClarification == S("Could you please clarify your request?")
DefaultGoal == S("Analyze the content")

\* screenshots/screenshot_<timestamp>.png; the clock is taken to tick between
\* any two steps
screenshot_path(st) ==
    PyStr(<<"screenshots/screenshot_", ToString(st.cmd), "_", ToString(st.step), ".png">>)

\* capture on any device, the content-only one included
capture_on_any_device(st, browser, o, message) ==
    LET r == take_screenshot(st, browser, screenshot_path(st), o) IN
    IF Truthy(r.out)
    THEN log_step([r.st EXCEPT !.shot = screenshot_path(st)], message)
    ELSE r.st

\* lines 201-207 and 238-244: the screenshot after a successful browse or click
capture(st, browser, o, message) ==
    IF browser = Playwright
    THEN LET r == take_screenshot(st, browser, screenshot_path(st), o) IN
         IF Truthy(r.out)
         THEN log_step([r.st EXCEPT !.shot = screenshot_path(st)], message)
         ELSE r.st
    ELSE st

\* do_answer_directly with the answer logged but not kept as final_result
do_answer_directly_discarding(st, action, user_input, o) ==
    LET question == DictGet(action, "question", user_input)
        r == generate_response(log_ai(st, "Generating direct answer"), question, o.llm)
    IN  IF r.st.raised THEN r.st
        ELSE log_ai(r.st, "Answer generated successfully")

do_answer_directly(st, action, user_input, o) ==
    LET question == DictGet(action, "question", user_input)
        r == generate_response(log_ai(st, "Generating direct answer"), question, o.llm)
    IN  IF r.st.raised THEN r.st
        ELSE log_ai([r.st EXCEPT !.final = r.out], "Answer generated successfully")

\* do_browse with the device called whatever the url
do_browse_unchecked(st, browser, action, o) ==
    LET url == DictGet(action, "url", PyNone)
        r == navigate(log_browser(st, "Navigating to URL"), browser, url, o)
        st1 == [r.st EXCEPT !.url = url]
    IN  IF r.success
        THEN capture(log_browser(st1, "Navigation successful"), browser, o,
                     "Screenshot captured and saved")
        ELSE log_error(st1, "Failed to navigate")

\* lines 188-210
do_browse(st, browser, action, o) ==
    LET url == DictGet(action, "url", PyNone) IN
    IF ~Truthy(url) THEN log_error(st, "URL not provided for browse action")
    ELSE LET r == navigate(log_browser(st, "Navigating to URL"), browser, url, o)
             st1 == [r.st EXCEPT !.url = url]
         IN  IF r.success
             THEN capture(log_browser(st1, "Navigation successful"), browser, o,
                          "Screenshot captured and saved")
             ELSE log_error(st1, "Failed to navigate")

do_extract_content(st, browser, action, user_input, o) ==
    LET r == get_content(log_browser(st, "Extracting content from current page"),
                         browser, o)
    IN  IF Truthy(r.out)
        THEN LET goal == DictGet(action, "processing_goal", DefaultGoal)
                 st1 == log_ai(log_browser(r.st, "Content extracted successfully"),
                               "Processing content for goal")
                 p == process_content(st1, r.out, user_input, goal, o.llm)
             IN  log_ai([p.st EXCEPT !.final = p.out], "Content processing completed")
        ELSE [log_error(r.st, "Failed to extract content") EXCEPT !.final = NoContentResult]

\* do_click with the device called whatever the selector
do_click_unchecked(st, browser, action, o) ==
    LET selector == DictGet(action, "selector", PyNone)
        r == click(log_browser(st, "Clicking element"), browser, selector, o)
    IN  IF r.success
        THEN capture(log_browser(r.st, "Click successful"), browser, o,
                     "Screenshot captured after click")
        ELSE log_error(r.st, "Failed to click")

\* do_click with a failed click raised instead of logged
do_click_raising(st, browser, action, o) ==
    LET selector == DictGet(action, "selector", PyNone) IN
    IF ~Truthy(selector) THEN log_error(st, "Selector not provided for click action")
    ELSE LET r == click(log_browser(st, "Clicking element"), browser, selector, o) IN
         IF r.success
         THEN capture(log_browser(r.st, "Click successful"), browser, o,
                      "Screenshot captured after click")
         ELSE Raise(r.st)

do_click(st, browser, action, o) ==
    LET selector == DictGet(action, "selector", PyNone) IN
    IF ~Truthy(selector) THEN log_error(st, "Selector not provided for click action")
    ELSE LET r == click(log_browser(st, "Clicking element"), browser, selector, o) IN
         IF r.success
         THEN capture(log_browser(r.st, "Click successful"), browser, o,
                      "Screenshot captured after click")
         ELSE log_error(r.st, "Failed to click")

\* do_type with a failed typing reported in final_result
do_type_reporting(st, browser, action, o) ==
    LET selector == DictGet(action, "selector", PyNone)
        text == DictGet(action, "text", PyNone)
    IN  IF ~Truthy(selector) \/ ~Truthy(text)
        THEN log_error(st, "Selector or text not provided for type action")
        ELSE LET r == type(log_browser(st, "Typing into element"), browser, selector,
                           text, o)
             IN  IF r.success THEN log_browser(r.st, "Typing successful")
                 ELSE [log_error(r.st, "Failed to type") EXCEPT !.final = r.error]

do_type(st, browser, action, o) ==
    LET selector == DictGet(action, "selector", PyNone)
        text == DictGet(action, "text", PyNone)
    IN  IF ~Truthy(selector) \/ ~Truthy(text)
        THEN log_error(st, "Selector or text not provided for type action")
        ELSE LET r == type(log_browser(st, "Typing into element"), browser, selector,
                           text, o)
             IN  IF r.success THEN log_browser(r.st, "Typing successful")
                 ELSE log_error(r.st, "Failed to type")

\* do_clarify ending the run after its message
do_clarify_halting(st, action) ==
    LET message == DictGet(action, "message", DefaultClarification) IN
    Raise([log_step(st, "Clarification needed") EXCEPT !.final = message])

do_clarify(st, action) ==
    LET message == DictGet(action, "message", DefaultClarification) IN
    [log_step(st, "Clarification needed") EXCEPT !.final = message]

\* dispatch with an unknown kind raised as an error
dispatch_strict(st, browser, action, user_input, o) ==
    IF action.t # "dict" THEN Raise(st)
    ELSE LET action_type == DictGet(action, "type", PyNone)
             st1 == log_step(st, "Executing step")
         IN  CASE action_type = S("answer_directly") ->
                      do_answer_directly(st1, action, user_input, o)
               [] action_type = S("browse") -> do_browse(st1, browser, action, o)
               [] action_type = S("extract_content") ->
                      do_extract_content(st1, browser, action, user_input, o)
               [] action_type = S("click") -> do_click(st1, browser, action, o)
               [] action_type = S("type") -> do_type(st1, browser, action, o)
               [] action_type = S("clarify") -> do_clarify(st1, action)
               [] OTHER -> Raise(log_error(st1, "Unknown action type"))

\* one iteration of the loop of lines 178-270
dispatch(st, browser, action, user_input, o) ==
    IF action.t # "dict" THEN Raise(st)
    ELSE LET action_type == DictGet(action, "type", PyNone)
             st1 == log_step(st, "Executing step")
         IN  CASE action_type = S("answer_directly") ->
                      do_answer_directly(st1, action, user_input, o)
               [] action_type = S("browse") -> do_browse(st1, browser, action, o)
               [] action_type = S("extract_content") ->
                      do_extract_content(st1, browser, action, user_input, o)
               [] action_type = S("click") -> do_click(st1, browser, action, o)
               [] action_type = S("type") -> do_type(st1, browser, action, o)
               [] action_type = S("clarify") -> do_clarify(st1, action)
               [] OTHER -> log_error(st1, "Unknown action type")

\* what `for action in x` iterates over (a str yields its characters, a dict
\* its keys), for the values len() accepts
RECURSIVE Keys(_)
Keys(set) ==
    IF set = {} THEN <<>>
    ELSE LET key == CHOOSE key \in set : TRUE
         IN  <<PyStr(key)>> \o Keys(set \ {key})

\* a list iterated from its last item to its first
iterate_reversed(x) ==
    CASE x.t = "list" -> [n \in 1..Len(x.v) |-> x.v[Len(x.v) + 1 - n]]
      [] x.t = "str" -> [n \in 1..Len(x.v) |-> S(x.v[n])]
      [] x.t = "dict" -> Keys(DOMAIN x.v)
      [] OTHER -> <<>>

iterate(x) ==
    CASE x.t = "list" -> x.v
      [] x.t = "str" -> [n \in 1..Len(x.v) |-> S(x.v[n])]
      [] x.t = "dict" -> Keys(DOMAIN x.v)
      [] OTHER -> <<>>

(***************************************************************************)
(* Inputs: the commands, the provider responses and the behaviour of the   *)
(* outside world during a step.                                            *)
(***************************************************************************)
Act1(k1, v1) == PyDict(<<k1>> :> v1)
Act2(k1, v1, k2, v2) == PyDict((<<k1>> :> v1) @@ (<<k2>> :> v2))
Act3(k1, v1, k2, v2, k3, v3) == PyDict((<<k1>> :> v1) @@ (<<k2>> :> v2) @@ (<<k3>> :> v3))

UserInputs == {S("what is the capital of France"), S("go to example.com")}
\* the interface hands over {command: string}
Commands == UserInputs

ExampleCom == S("example.com")
ExampleOrg == S("example.org")
HttpsExampleOrg == PyStr(<<"https:", "//", "example.org">>)
PageText == S("page text")

ActionSamples ==
    { AnswerDirectly(S("what is the capital of France")),
      Act1("type", S("answer_directly")),
      AnswerDirectly(PyNone),
      Act2("type", S("browse"), "url", ExampleCom),
      Act2("type", S("browse"), "url", HttpsExampleOrg),
      Act2("type", S("browse"), "url", ExampleOrg),
      Act1("type", S("browse")),
      Act2("type", S("browse"), "url", EmptyStr),
      Act2("type", S("extract_content"), "processing_goal", S("Summarize the article")),
      Act2("type", S("click"), "selector", S("button.submit")),
      Act1("type", S("click")),
      Act3("type", S("type"), "selector", S("input#search"), "text", S("browser automation")),
      Act2("type", S("type"), "selector", S("input#search")),
      Act2("type", S("clarify"), "message", S("Which website?")),
      Act2("type", S("clarify"), "message", PyNone),
      Act2("type", S("scroll"), "selector", S("body")),
      Act1("selector", S("body")),
      PyInt("7") }

ActionLists == UNION {[1..n -> ActionSamples] : n \in 0..MaxPlanLen}

\* what a model may answer with, as a Python value
PlanValues ==
    {PyDict(<<"actions">> :> PyList(actions)) : actions \in ActionLists}
    \cup { PyDict(<<>>),
           PyDict(<<"steps">> :> PyList(<<>>)),
           PyDict(<<"actions">> :> PyNone),
           PyDict(<<"actions">> :> PyInt("3")),
           PyDict(<<"actions">> :> S("browse")),
           PyDict(<<"actions">> :> EmptyStr),
           PyDict(<<"actions">> :> Act1("type", S("browse"))),
           PyList(<<>>),
           PyNone }

\* the text of a value, as json.dumps writes it
RECURSIVE Render(_)
RECURSIVE RenderItems(_, _)
RECURSIVE RenderMembers(_, _)
Render(x) ==
    CASE x.t = "none" -> <<Null>>
      [] x.t = "int" -> <<Num(x.v[1])>>
      [] x.t = "str" -> <<Lit(x.v)>>
      [] x.t = "list" -> <<P("[")>> \o RenderItems(x.v, 1) \o <<P("]")>>
      [] x.t = "dict" -> <<P("{")>> \o RenderMembers(x.v, DOMAIN x.v) \o <<P("}")>>
RenderItems(items, n) ==
    IF n > Len(items) THEN <<>>
    ELSE Render(items[n]) \o (IF n < Len(items) THEN <<P(",")>> ELSE <<>>)
         \o RenderItems(items, n + 1)
RenderMembers(fields, keys) ==
    IF keys = {} THEN <<>>
    ELSE LET key == CHOOSE key \in keys : TRUE
         IN  <<Lit(key), P(":")>> \o Render(fields[key])
             \o (IF keys = {key} THEN <<>> ELSE <<P(",")>>)
             \o RenderMembers(fields, keys \ {key})

Plain(x) == Render(x)
Fenced(x) == <<Fence, Word("json"), NL>> \o Render(x) \o <<NL, Fence>>
Chatty(x) == <<Word("Here is the plan:"), NL>> \o Render(x)

ResponseTexts ==
    {Plain(x) : x \in PlanValues}
    \cup {Fenced(FallbackPlan(S("go to example.com"))), Chatty(PyDict(<<>>)), <<>>}

Responses == {[call |-> "raise", text |-> <<>>]}
             \cup {[call |-> "ok", text |-> text] : text \in ResponseTexts}

\* the responses of the runs of several commands
SeqTexts ==
    { Plain(PyDict(<<"actions">> :> PyList(<<>>))),
      Plain(PyDict(<<"actions">> :>
                PyList(<<Act2("type", S("browse"), "url", ExampleCom)>>))),
      Plain(PyDict(<<"actions">> :>
                PyList(<<Act2("type", S("click"), "selector", S("button.submit")),
                         AnswerDirectly(S("what is the capital of France"))>>))),
      Plain(PyDict(<<"steps">> :> PyList(<<>>))),
      Chatty(PyDict(<<>>)) }

SeqResponses == {[call |-> "ok", text |-> text] : text \in SeqTexts}

Quiet ==
    [nav |-> "ok", body |-> PageText, content |-> PageText, scroll |-> "ok",
     click |-> "ok", typing |-> "ok", shot |-> "ok", llm |-> "ok"]

Bodies == {EmptyStr, PageText, LongText}

\* the outcomes that matter to a step on the given action
Outcomes(browser, action) ==
    LET kind == IF action.t = "dict" THEN DictGet(action, "type", PyNone) ELSE PyNone IN
    CASE kind = S("answer_directly") -> {[Quiet EXCEPT !.llm = l] : l \in {"ok", "raise"}}
      [] kind = S("browse") ->
            {[Quiet EXCEPT !.nav = n, !.body = b, !.shot = c] :
                n \in (IF browser = Playwright THEN {"ok", "fail", "timeout"}
                       ELSE {"ok", "fail"}),
                b \in (IF browser = Playwright THEN {PageText} ELSE Bodies),
                c \in (IF browser = Playwright THEN {"ok", "fail"} ELSE {"ok"})}
      [] kind = S("extract_content") ->
            {[Quiet EXCEPT !.content = c, !.llm = l] :
                c \in (IF browser = Playwright THEN Bodies \cup {PyNone}
                       ELSE {PageText, PyNone}),
                l \in {"ok", "raise"}}
      [] kind = S("click") ->
            IF browser = Playwright
            THEN {[Quiet EXCEPT !.scroll = a, !.click = b, !.shot = c] :
                    a \in {"ok", "fail"}, b \in {"ok", "fail"}, c \in {"ok", "fail"}}
            ELSE {Quiet}
      [] kind = S("type") ->
            IF browser = Playwright
            THEN {[Quiet EXCEPT !.typing = a] : a \in {"ok", "fail"}}
            ELSE {Quiet}
      [] OTHER -> {Quiet}

(***************************************************************************)
(* State.                                                                  *)
(***************************************************************************)
VARIABLES
    environ,                \* the providers whose <NAME>_API_KEY is set
    config,                 \* config['ai']: defaultProvider and providers
    available_providers,    \* the configured providers whose key is set
    ai_client,              \* flask_server.ai_client: "None" or the provider's name
    current_provider_name,  \* flask_server.current_provider_name
    browser,                \* flask_server.browser: "None" or the device class
    session,                \* the Device Session
    current_task_logs,      \* flask_server.current_task_logs
    logger_task_logs,       \* src.utils.logger.current_task_logs
    last_processed_url,     \* flask_server.last_processed_url
    last_screenshot,        \* flask_server.last_screenshot
    pc,                     \* where process_user_command stands
    user_input,             \* its argument
    response,               \* what the model call of create_action_plan produced
    action_plan,            \* its local action_plan
    steps,                  \* the sequence the loop iterates over
    i,                      \* the index of the next step (1-based)
    final_result,           \* its local final_result
    result,                 \* what the last call returned to its caller
    cmd,                    \* history: the number of commands received
    calls,                  \* history: operations invoked by the running command
    dispatched,             \* history: indices of the steps dispatched so far
    launched,               \* history: outcome of each PlaywrightBrowser construction
    switch_pc,              \* where the switch request stands in initialize_ai_provider
    switch_provider,        \* the provider named by the last switch request
    switch_response,        \* what the last switch request answered
    switches,               \* history: the number of switch requests received
    observed,               \* what the last GET /api/providers answered
    device_result,          \* what the last operation called on the device returned
    overlap,                \* the command served on a second thread meanwhile
    factory_call            \* the last call of AIProviderFactory.create_provider

vars == <<environ, config, available_providers, ai_client, current_provider_name, browser,
          session, current_task_logs, logger_task_logs, last_processed_url,
          last_screenshot, pc, user_input, response, action_plan, steps, i,
          final_result, result, cmd, calls, dispatched, launched, switch_pc,
          switch_provider, switch_response, switches, observed, device_result,
          overlap, factory_call>>

config_vars == <<environ, config, available_providers>>
handle_vars == <<ai_client, current_provider_name>>
device_vars == <<browser, launched, device_result>>
switch_vars == <<switch_pc, switch_provider, switch_response, switches, observed>>

NoResponse == [call |-> "none", text |-> <<>>]
NoResult ==
    [kind |-> "none", final_result |-> PyNone, logs |-> <<>>,
     processed_url |-> PyNone, screenshot |-> PyNone]
TaskResult(final, logs, url, shot) ==
    [kind |-> "task_result", final_result |-> final, logs |-> logs,
     processed_url |-> url, screenshot |-> shot]

\* the record the step operators work on, and its way back into the variables
Frame ==
    [logs |-> logger_task_logs, url |-> last_processed_url, shot |-> last_screenshot,
     final |-> final_result, session |-> session, calls |-> calls, raised |-> FALSE,
     cmd |-> cmd, step |-> i, ai_client |-> ai_client]

Store(st) ==
    /\ logger_task_logs' = st.logs
    /\ last_processed_url' = st.url
    /\ last_screenshot' = st.shot
    /\ final_result' = st.final
    /\ session' = st.session
    /\ calls' = st.calls

(***************************************************************************)
(* Start-up: initialize_with_config.                                       *)
(***************************************************************************)
\* provider_type.lower(), for the names of the model
lower(name) ==
    CASE name = "Gemini" -> "gemini"
      [] name = "OPENAI" -> "openai"
      [] OTHER -> name

\* the key looked up in the configuration before the environment
api_key_config_first(provider_type, provider_config, env) ==
    IF provider_config = "with_key" THEN "config"
    ELSE IF provider_type \in env THEN "environ"
    ELSE "None"

\* os.environ.get(f"{provider_type.upper()}_API_KEY", config.get("api_key")):
\* where the key comes from, "None" when there is none
api_key(provider_type, provider_config, env) ==
    IF provider_type \in env THEN "environ"
    ELSE IF provider_config = "with_key" THEN "config"
    ELSE "None"

\* create_provider with an exception of the constructor let through: what
\* reaches the caller is no instance and no None
create_provider_propagating(provider_type, provider_config, env, constructed) ==
    IF lower(provider_type) \notin ProviderNames THEN "None"
    ELSE IF api_key(lower(provider_type), provider_config, env) = "None" THEN "None"
    ELSE IF ~constructed THEN "raised"
    ELSE lower(provider_type)

\* create_provider building the default class whatever the name asked for
create_provider_default_class(provider_type, provider_config, env, constructed) ==
    IF lower(provider_type) \notin ProviderNames THEN "None"
    ELSE IF api_key(lower(provider_type), provider_config, env) = "None" THEN "None"
    ELSE IF ~constructed THEN "None"
    ELSE "gemini"

\* AIProviderFactory.create_provider: the instance, or "None"
create_provider(provider_type, provider_config, env, constructed) ==
    IF lower(provider_type) \notin ProviderNames THEN "None"
    ELSE IF api_key(lower(provider_type), provider_config, env) = "None" THEN "None"
    ELSE IF ~constructed THEN "None"
    ELSE lower(provider_type)

\* the api_key argument of provider_class(api_key=api_key, **config_copy),
\* "None" when the constructor is not reached
constructor_key(provider_type, provider_config, env) ==
    IF lower(provider_type) \notin ProviderNames THEN "None"
    ELSE api_key(lower(provider_type), provider_config, env)

\* config['ai']['providers'].get(provider_name, {}): "absent" is the empty dict
provider_config_of(cfg, provider_name) ==
    IF provider_name \in DOMAIN cfg.providers
    THEN cfg.providers[provider_name] ELSE "absent"

\* detect_available_providers: configured providers whose key is in the
\* environment
detect_available_providers(cfg, env) ==
    { provider \in DOMAIN cfg.providers : provider \in env }

\* the deployments the commands are run in: the keys in the environment and
\* config['ai']; a provider's settings are "settings", or "with_key" when
\* they carry an api_key
Deployments ==
    { [environ |-> {},
       config  |-> [defaultProvider |-> "gemini",
                    providers |-> [p \in {"gemini", "openai"} |->
                                     IF p = "gemini" THEN "with_key" ELSE "settings"]]],
      [environ |-> {"gemini", "openai"},
       config  |-> [defaultProvider |-> "openai",
                    providers |-> [p \in {"gemini", "openai"} |-> "settings"]]],
      [environ |-> {"cohere"},
       config  |-> [defaultProvider |-> "cohere",
                    providers |-> [p \in {"gemini", "cohere"} |-> "settings"]]],
      [environ |-> {"openai"},
       config  |-> [defaultProvider |-> "gemini",
                    providers |-> [p \in {"gemini", "openai"} |-> "settings"]]],
      [environ |-> {"gemini", "groq"},
       config  |-> [defaultProvider |-> "cohere",
                    providers |-> [p \in {"gemini", "groq"} |-> "settings"]]] }

NoSwitchResponse == [status |-> "none", initializing |-> FALSE]
NoObservation == [providers |-> {}, current |-> "None", default |-> "None"]
NoFactoryCall ==
    [provider_type |-> "None", config |-> "absent", constructed |-> FALSE,
     api_key |-> "None", out |-> "None", done |-> FALSE]
NoOverlap == [pc |-> "idle", user_input |-> PyNone, result |-> NoResult]
NoDeviceResult ==
    [op |-> "none", success |-> FALSE, error |-> PyNone, out |-> PyNone,
     raised |-> FALSE]

Init ==
    /\ \E d \in Deployments : environ = d.environ /\ config = d.config
    /\ available_providers = {}
    /\ ai_client = "None"
    /\ current_provider_name = "None"
    /\ browser = "None"
    /\ session = NewSession
    /\ current_task_logs = <<>>
    /\ logger_task_logs = <<>>
    /\ last_processed_url = PyNone
    /\ last_screenshot = PyNone
    /\ pc = "boot"
    /\ user_input = PyNone
    /\ response = NoResponse
    /\ action_plan = PyNone
    /\ steps = <<>>
    /\ i = 1
    /\ final_result = PyNone
    /\ result = NoResult
    /\ cmd = 0
    /\ calls = <<>>
    /\ dispatched = {}
    /\ launched = <<>>
    /\ switch_pc = "idle"
    /\ switch_provider = "None"
    /\ switch_response = NoSwitchResponse
    /\ switches = 0
    /\ observed = NoObservation
    /\ device_result = NoDeviceResult
    /\ overlap = NoOverlap
    /\ factory_call = NoFactoryCall

\* initialize_ai_provider (lines 84-112): the new handle, or "None" when the
\* provider has no configuration or the factory gives none
initialize_ai_provider(provider_name, cfg, env, constructed) ==
    LET provider_config == provider_config_of(cfg, provider_name) IN
    IF provider_config = "absent" THEN "None"
    ELSE create_provider(provider_name, provider_config, env, constructed)

\* initialize_browser_engine with every failure of the construction fatal
initialize_browser_engine_strict(launch_ok) ==
    IF launch_ok THEN Playwright ELSE "None"

\* initialize_browser_engine (lines 114-134): the device that becomes active
initialize_browser_engine(launch_ok) ==
    IF launch_ok THEN Playwright ELSE Requests

\* lines 48-69 with initialize_ai_provider (84-112), detect_available_providers
\* (71-82) and initialize_browser_engine (114-134); the factory's log_error
\* is the one trace entry of start-up
initialize_with_config ==
    /\ pc = "boot"
    /\ \E constructed \in BOOLEAN, launch_ok \in BOOLEAN :
         LET default_provider == config.defaultProvider
             new_client == initialize_ai_provider(default_provider, config,
                                                  environ, constructed)
             reached_factory ==
                 provider_config_of(config, default_provider) # "absent"
         IN
         /\ IF new_client # "None"
            THEN ai_client' = new_client /\ current_provider_name' = default_provider
            ELSE UNCHANGED handle_vars
         /\ logger_task_logs' =
                IF new_client = "None" /\ reached_factory
                THEN Append(logger_task_logs, Entry("error", "no provider created", cmd))
                ELSE logger_task_logs
         /\ browser' = initialize_browser_engine(launch_ok)
         /\ launched' = Append(launched, launch_ok)
    /\ available_providers' = detect_available_providers(config, environ)
    /\ pc' = "idle"
    /\ UNCHANGED <<environ, config, session, current_task_logs,
                   last_processed_url, last_screenshot, user_input, response,
                   action_plan, steps, i, final_result, result, cmd, calls, dispatched,
                   switch_vars, device_result, overlap, factory_call>>

(***************************************************************************)
(* process_user_command, in the steps a caller can tell apart.             *)
(***************************************************************************)
\* lines 136-141, on the record of the three globals it assigns
reset_task_state(globals) ==
    [globals EXCEPT !.current_task_logs = <<>>,
                    !.last_processed_url = PyNone,
                    !.last_screenshot = PyNone]

TaskState ==
    [current_task_logs |-> current_task_logs,
     last_processed_url |-> last_processed_url,
     last_screenshot |-> last_screenshot]

\* the handler with the url and the screenshot of the result reset
fault_resetting(st) ==
    LET st1 == log_error(log_error(st, "Error processing command"), "traceback") IN
    /\ Store(st1)
    /\ result' = TaskResult(ApologyResult, current_task_logs, PyNone, PyNone)
    /\ pc' = "idle"

\* lines 279-289: the handler of the try block
fault(st) ==
    LET st1 == log_error(log_error(st, "Error processing command"), "traceback") IN
    /\ Store(st1)
    /\ result' = TaskResult(ApologyResult, current_task_logs, st1.url, st1.shot)
    /\ pc' = "idle"

\* the guard with the provider asked for a plan all the same
no_provider_guard_planning(st, logs) ==
    [st |-> Record(log_error(st, "No AI provider initialized"),
                   "create_action_plan", PyNone, FALSE, PyNone),
     result |-> TaskResult(NoProviderResult, logs, PyNone, PyNone)]

\* lines 148-155: the guard taken when ai_client is None
no_provider_guard(st, logs) ==
    [st |-> log_error(st, "No AI provider initialized"),
     result |-> TaskResult(NoProviderResult, logs, PyNone, PyNone)]

\* lines 143-157: the call, up to the try block
receive_command(limit) ==
    /\ pc = "idle"
    /\ cmd < limit
    /\ \E command \in Commands :
         LET fresh == reset_task_state(TaskState)
             st == [Frame EXCEPT !.url = fresh.last_processed_url,
                                 !.shot = fresh.last_screenshot, !.final = PyNone,
                                 !.calls = <<>>, !.cmd = cmd + 1, !.step = 0]
         IN  /\ user_input' = command
             /\ current_task_logs' = fresh.current_task_logs
             /\ IF ai_client = "None"
                THEN /\ Store(no_provider_guard(st, fresh.current_task_logs).st)
                     /\ result' = no_provider_guard(st, fresh.current_task_logs).result
                     /\ pc' = "idle"
                ELSE /\ Store(log_step(st, "Received user command"))
                     /\ result' = NoResult
                     /\ pc' = "planning"
    /\ cmd' = cmd + 1
    /\ response' = NoResponse
    /\ action_plan' = PyNone
    /\ steps' = <<>>
    /\ i' = 1
    /\ dispatched' = {}
    /\ UNCHANGED <<config_vars, handle_vars, device_vars, switch_vars, overlap,
                   factory_call>>

\* lines 161-162
plan_command(responses) ==
    /\ pc = "planning"
    /\ \E resp \in responses :
         LET r == create_action_plan(log_step(Frame, "Planning action steps"),
                                     user_input, resp)
         IN  /\ response' = resp
             /\ action_plan' = r.plan
             /\ Store(r.st)
    /\ pc' = "planned"
    /\ UNCHANGED <<config_vars, handle_vars, device_vars, switch_vars, overlap, factory_call,
                   current_task_logs, user_input,
                   steps, i, result, cmd, dispatched>>

\* lines 164-175
check_plan ==
    /\ pc = "planned"
    /\ response' = NoResponse
    /\ IF ~Truthy(action_plan) \/ ~HasKey(action_plan, "actions")
       THEN /\ Store(log_error(Frame, "Failed to create a valid action plan"))
            /\ result' = TaskResult(NoPlanResult, current_task_logs, PyNone, PyNone)
            /\ pc' = "idle"
            /\ UNCHANGED steps
       ELSE IF Unsized(action_plan.v[<<"actions">>])
       THEN /\ fault(Frame)
            /\ UNCHANGED steps
       ELSE /\ Store([log_step(Frame, "Created action plan") EXCEPT
                          !.final = DefaultResult])
            /\ steps' = iterate(action_plan.v[<<"actions">>])
            /\ pc' = "executing"
            /\ UNCHANGED result
    /\ UNCHANGED <<config_vars, handle_vars, device_vars, switch_vars, overlap, factory_call,
                   current_task_logs, user_input,
                   action_plan, i, cmd, dispatched>>

\* lines 178-270: one iteration
execute_step ==
    /\ pc = "executing"
    /\ i <= Len(steps)
    /\ \E o \in Outcomes(browser, steps[i]) :
         LET st == dispatch(Frame, browser, steps[i], user_input, o) IN
         IF st.raised
         THEN fault(st) /\ UNCHANGED i
         ELSE Store(st) /\ i' = i + 1 /\ UNCHANGED <<pc, result>>
    /\ dispatched' = dispatched \cup {i}
    /\ UNCHANGED <<config_vars, handle_vars, device_vars, switch_vars, overlap, factory_call,
                   current_task_logs, user_input,
                   response, action_plan, steps, cmd>>

\* lines 272-277
return_result ==
    /\ pc = "executing"
    /\ i > Len(steps)
    /\ result' = TaskResult(final_result, current_task_logs, last_processed_url,
                            last_screenshot)
    /\ pc' = "idle"
    /\ UNCHANGED <<config_vars, handle_vars, device_vars, switch_vars, overlap, factory_call,
                   session, current_task_logs,
                   logger_task_logs, last_processed_url, last_screenshot, user_input,
                   response, action_plan, steps, i, final_result, cmd, calls,
                   dispatched>>

(***************************************************************************)
(* The provider routes: GET /api/providers and POST /api/providers/switch. *)
(* The server handles each request on a thread of its own, so a request    *)
(* may be served while a command is in progress.                           *)
(***************************************************************************)
Handle == [ai_client |-> ai_client, current_provider_name |-> current_provider_name]

\* the names a switch request may carry; "" is a request without a provider
SwitchRequests == ProviderNames \cup {"groq", ""}

\* the checks with the one for the provider already in use left out
switch_decision_always(provider, available, current) ==
    IF provider = "" THEN "no_provider"
    ELSE IF provider \notin available THEN "unavailable"
    ELSE "initialize"

\* lines 327-338: the checks of switch_ai_provider before it initializes
switch_decision(provider, available, current) ==
    IF provider = "" THEN "no_provider"
    ELSE IF provider \notin available THEN "unavailable"
    ELSE IF provider = current THEN "already"
    ELSE "initialize"

\* the assignment made whatever create_provider returned
install_unchecked(handle, new_client) ==
    [handle EXCEPT !.ai_client = new_client]

\* lines 99-100: ai_client = new_client, for a new_client that is not None
install(handle, new_client) ==
    IF new_client # "None" THEN [handle EXCEPT !.ai_client = new_client] ELSE handle

\* lines 321-344 with initialize_ai_provider up to line 100
switch_ai_provider ==
    /\ pc # "boot"
    /\ switch_pc = "idle"
    /\ switches < MaxSwitches
    /\ \E provider \in SwitchRequests, constructed \in BOOLEAN :
         LET decision == switch_decision(provider, available_providers,
                                         current_provider_name)
             new_client == initialize_ai_provider(provider, config, environ, constructed)
             reached_factory == provider_config_of(config, provider) # "absent"
         IN  /\ switch_provider' = provider
             /\ IF decision # "initialize"
                THEN /\ switch_response' = [status |-> decision, initializing |-> FALSE]
                     /\ UNCHANGED <<ai_client, switch_pc, logger_task_logs>>
                ELSE /\ ai_client' = install(Handle, new_client).ai_client
                     /\ IF new_client # "None"
                        THEN /\ switch_pc' = "assigned"
                             /\ switch_response' =
                                    [status |-> "switching", initializing |-> TRUE]
                             /\ UNCHANGED logger_task_logs
                        ELSE /\ switch_response' =
                                    [status |-> "failed", initializing |-> TRUE]
                             /\ logger_task_logs' =
                                    IF reached_factory
                                    THEN Append(logger_task_logs,
                                                Entry("error", "no provider created", cmd))
                                    ELSE logger_task_logs
                             /\ UNCHANGED switch_pc
    /\ switches' = switches + 1
    /\ UNCHANGED <<config_vars, current_provider_name, device_vars, session,
                   current_task_logs, last_processed_url, last_screenshot, pc,
                   user_input, response, action_plan, steps, i, final_result, result,
                   cmd, calls, dispatched, observed, overlap, factory_call>>

\* lines 101-103 and 340-342: current_provider_name = provider_name, and the
\* answer of the request
assign_provider_name ==
    /\ switch_pc = "assigned"
    /\ current_provider_name' = switch_provider
    /\ switch_response' = [status |-> "switched", initializing |-> TRUE]
    /\ switch_pc' = "idle"
    /\ UNCHANGED <<config_vars, ai_client, device_vars, session, current_task_logs,
                   logger_task_logs, last_processed_url, last_screenshot, pc,
                   user_input, response, action_plan, steps, i, final_result, result,
                   cmd, calls, dispatched, switch_provider, switches, observed,
                   overlap, factory_call>>

\* lines 312-319
get_available_providers ==
    /\ pc # "boot"
    /\ observed' = [providers |-> available_providers,
                    current |-> current_provider_name,
                    default |-> config.defaultProvider]
    /\ UNCHANGED <<config_vars, handle_vars, device_vars, session, current_task_logs,
                   logger_task_logs, last_processed_url, last_screenshot, pc,
                   user_input, response, action_plan, steps, i, final_result, result,
                   cmd, calls, dispatched, switch_pc, switch_provider, switch_response,
                   switches, overlap, factory_call>>

(***************************************************************************)
(* A second POST /api/command served while the first is in progress.  The  *)
(* server handles each request on a thread of its own and no lock guards   *)
(* process_user_command; the second call is taken in two steps, its first  *)
(* lines and the rest.                                                     *)
(***************************************************************************)
\* the loop of lines 178-270 from step n on, up to the first step that raises
RECURSIVE run_steps(_, _, _, _, _, _)
run_steps(st, device, actions, n, command, o) ==
    IF n > Len(actions) \/ st.raised THEN st
    ELSE run_steps(dispatch([st EXCEPT !.step = n], device, actions[n], command, o),
                   device, actions, n + 1, command, o)

\* lines 164-289: the try block after the plan r = [st, plan] was made, and
\* its handler; [st, result]
process_plan(r, device, logs, command, o) ==
    LET faulted(st1) ==
            [st |-> log_error(log_error(st1, "Error processing command"), "traceback"),
             result |-> TaskResult(ApologyResult, logs, st1.url, st1.shot)]
    IN  IF ~Truthy(r.plan) \/ ~HasKey(r.plan, "actions")
        THEN [st |-> log_error(r.st, "Failed to create a valid action plan"),
              result |-> TaskResult(NoPlanResult, logs, PyNone, PyNone)]
        ELSE IF Unsized(r.plan.v[<<"actions">>]) THEN faulted(r.st)
        ELSE LET st1 == run_steps([log_step(r.st, "Created action plan") EXCEPT
                                       !.final = DefaultResult],
                                  device, iterate(r.plan.v[<<"actions">>]), 1,
                                  command, o)
             IN  IF st1.raised THEN faulted(st1)
                 ELSE [st |-> st1,
                       result |-> TaskResult(st1.final, logs, st1.url, st1.shot)]

\* the frame of the second call: its entries carry the number cmd + 1
OverlapFrame ==
    [Frame EXCEPT !.cmd = cmd + 1, !.step = 0, !.final = PyNone, !.calls = <<>>]

\* lines 143-157 of the second call, while the first is in its try block
overlap_receive ==
    /\ pc \in {"planning", "planned", "executing"}
    /\ overlap.pc = "idle"
    /\ \E command \in Commands :
         LET fresh == reset_task_state(TaskState)
             st == log_step(OverlapFrame, "Received user command")
         IN  /\ current_task_logs' = fresh.current_task_logs
             /\ last_processed_url' = fresh.last_processed_url
             /\ last_screenshot' = fresh.last_screenshot
             /\ logger_task_logs' = st.logs
             /\ overlap' = [pc |-> "running", user_input |-> command, result |-> NoResult]
    /\ UNCHANGED <<config_vars, handle_vars, device_vars, switch_vars, session, pc,
                   user_input, response, action_plan, steps, i, final_result, result,
                   cmd, calls, dispatched, factory_call>>

\* lines 159-289 of the second call
overlap_finish(responses) ==
    /\ overlap.pc = "running"
    /\ \E resp \in responses, o \in {Quiet, [Quiet EXCEPT !.nav = "fail"]} :
         \E planned \in {create_action_plan(log_step(OverlapFrame, "Planning action steps"),
                                             overlap.user_input, resp)} :
         \E r \in {process_plan(planned, browser, current_task_logs,
                                overlap.user_input, o)} :
             /\ logger_task_logs' = r.st.logs
             /\ last_processed_url' = r.st.url
             /\ last_screenshot' = r.st.shot
             /\ session' = r.st.session
             /\ overlap' = [overlap EXCEPT !.pc = "done", !.result = r.result]
    /\ UNCHANGED <<config_vars, handle_vars, device_vars, switch_vars,
                   current_task_logs, pc, user_input, response, action_plan, steps, i,
                   final_result, result, cmd, calls, dispatched, factory_call>>

(***************************************************************************)
(* The registry on its own (ai/provider_factory.py): create_provider       *)
(* called with any name and any provider configuration.                    *)
(***************************************************************************)
\* the names create_provider is called with
FactoryNames == ProviderNames \cup {"groq", "openrouter", "Gemini", "OPENAI", "mistral"}

InitFactory ==
    /\ environ \in SUBSET {"gemini", "openai", "groq"}
    /\ config = [defaultProvider |-> "gemini",
                 providers |-> [p \in {"gemini"} |-> "settings"]]
    /\ available_providers = {}
    /\ ai_client = "None"
    /\ current_provider_name = "None"
    /\ browser = "None"
    /\ launched = <<>>
    /\ session = NewSession
    /\ current_task_logs = <<>>
    /\ logger_task_logs = <<>>
    /\ last_processed_url = PyNone
    /\ last_screenshot = PyNone
    /\ pc = "factory"
    /\ user_input = PyNone
    /\ response = NoResponse
    /\ action_plan = PyNone
    /\ steps = <<>>
    /\ i = 1
    /\ final_result = PyNone
    /\ result = NoResult
    /\ cmd = 0
    /\ calls = <<>>
    /\ dispatched = {}
    /\ switch_pc = "idle"
    /\ switch_provider = "None"
    /\ switch_response = NoSwitchResponse
    /\ switches = 0
    /\ observed = NoObservation
    /\ device_result = NoDeviceResult
    /\ overlap = NoOverlap
    /\ factory_call = NoFactoryCall

\* provider_factory.py lines 49-90; every way out but the instance logs an
\* error
factory_create ==
    /\ pc = "factory"
    /\ Len(logger_task_logs) < MaxCreates
    /\ \E provider_type \in FactoryNames, provider_config \in {"settings", "with_key"},
          constructed \in BOOLEAN :
         LET out == create_provider(provider_type, provider_config, environ, constructed)
         IN  /\ factory_call' = [provider_type |-> provider_type,
                                 config |-> provider_config,
                                 constructed |-> constructed,
                                 api_key |-> constructor_key(provider_type,
                                                provider_config, environ),
                                 out |-> out, done |-> TRUE]
             /\ logger_task_logs' =
                    IF out = "None"
                    THEN Append(logger_task_logs, Entry("error", "no provider created", cmd))
                    ELSE logger_task_logs
    /\ UNCHANGED <<config_vars, handle_vars, device_vars, switch_vars, overlap, session,
                   current_task_logs, last_processed_url, last_screenshot, pc,
                   user_input, response, action_plan, steps, i, final_result, result,
                   cmd, calls, dispatched>>

NextFactory == factory_create

SpecFactory == InitFactory /\ [][NextFactory]_vars

(***************************************************************************)
(* The device on its own (browser/engine.py): the operations of            *)
(* BaseBrowser called on a constructed device, with any argument.          *)
(***************************************************************************)
InitDevice ==
    /\ environ = {"gemini"}
    /\ config = [defaultProvider |-> "gemini",
                 providers |-> [p \in {"gemini"} |-> "settings"]]
    /\ available_providers = {}
    /\ ai_client = "None"
    /\ current_provider_name = "None"
    /\ browser \in {Playwright, Requests}
    /\ launched = <<browser = Playwright>>
    /\ session = NewSession
    /\ current_task_logs = <<>>
    /\ logger_task_logs = <<>>
    /\ last_processed_url = PyNone
    /\ last_screenshot = PyNone
    /\ pc = "device"
    /\ user_input = PyNone
    /\ response = NoResponse
    /\ action_plan = PyNone
    /\ steps = <<>>
    /\ i = 1
    /\ final_result = PyNone
    /\ result = NoResult
    /\ cmd = 0
    /\ calls = <<>>
    /\ dispatched = {}
    /\ switch_pc = "idle"
    /\ switch_provider = "None"
    /\ switch_response = NoSwitchResponse
    /\ switches = 0
    /\ observed = NoObservation
    /\ device_result = NoDeviceResult
    /\ overlap = NoOverlap
    /\ factory_call = NoFactoryCall

\* the arguments the operations are called with
Urls == {ExampleCom, HttpsExampleOrg, PyInt("7")}
Selectors == {S("button.submit"), EmptyStr, PyNone}
Texts == {S("browser automation"), PyNone}
Paths == {S("static/screenshots/page.png"), PyNone}

\* the outcomes the page allows: nothing is found for a selector that is
\* not a string, and nothing is typed for a text that is not one
DeviceOutcomes(selector, text) ==
    {[Quiet EXCEPT !.nav = n, !.content = c, !.click = k, !.typing = t, !.shot = h] :
        n \in {"ok", "timeout", "fail"}, c \in {PageText, PyNone},
        k \in (IF selector.t = "str" THEN {"ok", "fail"} ELSE {"fail"}),
        t \in (IF selector.t = "str" /\ text.t = "str" THEN {"ok", "fail"} ELSE {"fail"}),
        h \in {"ok", "fail"}}

\* what is left alone by an operation called on the device
device_frame ==
    /\ Len(calls) < MaxDeviceOps
    /\ pc = "device"
    /\ UNCHANGED <<config_vars, handle_vars, browser, launched, switch_vars, overlap,
                   factory_call,
                   current_task_logs, last_processed_url, last_screenshot, pc,
                   user_input, response, action_plan, steps, i, final_result, result,
                   cmd, dispatched>>

Returns(st) ==
    /\ session' = st.session
    /\ logger_task_logs' = st.logs
    /\ calls' = st.calls

device_navigate ==
    /\ device_frame
    /\ \E url \in Urls, o \in DeviceOutcomes(PyNone, PyNone) :
         LET r == navigate(Frame, browser, url, o) IN
         /\ Returns(r.st)
         /\ device_result' = [op |-> "navigate", success |-> r.success,
                              error |-> r.error, out |-> PyNone, raised |-> r.st.raised]

device_get_content ==
    /\ device_frame
    /\ \E o \in DeviceOutcomes(PyNone, PyNone) :
         LET r == get_content(Frame, browser, o) IN
         /\ Returns(r.st)
         /\ device_result' = [op |-> "get_content", success |-> r.out # PyNone,
                              error |-> PyNone, out |-> r.out, raised |-> r.st.raised]

device_click ==
    /\ device_frame
    /\ \E selector \in Selectors :
         \E o \in DeviceOutcomes(selector, PyNone) :
           LET r == click(Frame, browser, selector, o) IN
           /\ Returns(r.st)
           /\ device_result' = [op |-> "click", success |-> r.success,
                                error |-> r.error, out |-> PyNone, raised |-> r.st.raised]

device_type ==
    /\ device_frame
    /\ \E selector \in Selectors, text \in Texts :
         \E o \in DeviceOutcomes(selector, text) :
           LET r == type(Frame, browser, selector, text, o) IN
           /\ Returns(r.st)
           /\ device_result' = [op |-> "type", success |-> r.success,
                                error |-> r.error, out |-> PyNone, raised |-> r.st.raised]

device_take_screenshot ==
    /\ device_frame
    /\ \E file_path \in Paths, o \in DeviceOutcomes(PyNone, PyNone) :
         LET r == take_screenshot(Frame, browser, file_path, o) IN
         /\ Returns(r.st)
         /\ device_result' = [op |-> "take_screenshot", success |-> r.out # PyNone,
                              error |-> PyNone, out |-> r.out, raised |-> r.st.raised]

NextDevice ==
    \/ device_navigate
    \/ device_get_content
    \/ device_click
    \/ device_type
    \/ device_take_screenshot

SpecDevice == InitDevice /\ [][NextDevice]_vars

\* The first command after start-up, for every response of ResponseTexts.
Next ==
    \/ initialize_with_config
    \/ receive_command(1)
    \/ plan_command(Responses)
    \/ check_plan
    \/ execute_step
    \/ return_result

Spec == Init /\ [][Next]_vars

\* MaxCommands commands one after the other, for the responses of SeqTexts.
NextSeq ==
    \/ initialize_with_config
    \/ receive_command(MaxCommands)
    \/ plan_command(SeqResponses)
    \/ check_plan
    \/ execute_step
    \/ return_result

SpecSeq == Init /\ [][NextSeq]_vars

\* the responses of the runs followed to their end: the plans of up to
\* MaxPlanLen of these actions, answer_directly without a question among them
RunResponses ==
    LET actions == { AnswerDirectly(S("what is the capital of France")),
                     AnswerDirectly(PyNone),
                     Act2("type", S("browse"), "url", ExampleCom),
                     Act2("type", S("extract_content"), "processing_goal",
                          S("Summarize the article")),
                     Act2("type", S("click"), "selector", S("button.submit")) }
        lists == UNION {[1..n -> actions] : n \in 0..MaxPlanLen}
    IN  {[call |-> "ok", text |-> Plain(PyDict(<<"actions">> :> PyList(list)))] :
            list \in lists}

\* One command on a thread that is not held up: the loop of lines 178-270
\* takes its next iteration, and the return of lines 272-277 is taken, once
\* the calls of the iteration before have returned.
NextRun ==
    \/ initialize_with_config
    \/ receive_command(1)
    \/ plan_command(RunResponses)
    \/ check_plan
    \/ execute_step
    \/ return_result

SpecRun ==
    Init /\ [][NextRun]_vars /\ WF_vars(execute_step) /\ WF_vars(return_result)

\* a response in a code fence, labelled json or not, with a comment line after
\* the opening brace of the object x
Commented(x, labelled) ==
    <<Fence>> \o (IF labelled THEN <<Word("json")>> ELSE <<>>)
    \o <<NL, P("{"), NL, Slashes, Word("the plan"), NL>> \o Tail(Render(x))
    \o <<NL, Fence>>

FencedPlans ==
    { PyDict(<<"actions">> :> PyList(<<>>)),
      PyDict(<<"actions">> :> PyList(<<Act2("type", S("browse"), "url", ExampleCom)>>)),
      PyDict(<<"actions">> :> PyList(<<Act2("type", S("browse"), "url", HttpsExampleOrg)>>)),
      PyDict(<<"actions">> :>
                PyList(<<Act2("type", S("browse"), "url", ExampleCom),
                         Act2("type", S("extract_content"), "processing_goal",
                              S("Summarize the article"))>>)),
      FallbackPlan(S("what is the capital of France")) }

FencedResponses ==
    {[call |-> "ok", text |-> Commented(x, labelled)] :
        x \in FencedPlans, labelled \in BOOLEAN}

\* One command whose plan comes in a code fence with a comment line.
NextParse ==
    \/ initialize_with_config
    \/ receive_command(1)
    \/ plan_command(FencedResponses)
    \/ check_plan
    \/ execute_step
    \/ return_result

SpecParse == Init /\ [][NextParse]_vars

\* the responses of the commands that run beside the provider routes
SwitchTexts ==
    { Plain(PyDict(<<"actions">> :> PyList(<<>>))),
      Plain(PyDict(<<"actions">> :>
                PyList(<<AnswerDirectly(S("what is the capital of France"))>>))),
      Plain(PyDict(<<"actions">> :>
                PyList(<<Act2("type", S("browse"), "url", ExampleCom)>>))) }

SwitchResponses == {[call |-> "ok", text |-> text] : text \in SwitchTexts}

\* One command and up to MaxSwitches switch requests, served side by side.
NextSwitch ==
    \/ initialize_with_config
    \/ receive_command(1)
    \/ plan_command(SwitchResponses)
    \/ check_plan
    \/ execute_step
    \/ return_result
    \/ switch_ai_provider
    \/ assign_provider_name
    \/ get_available_providers

SpecSwitch == Init /\ [][NextSwitch]_vars

\* Two commands submitted at the same time.
NextOverlap ==
    \/ initialize_with_config
    \/ receive_command(1)
    \/ plan_command(SwitchResponses)
    \/ check_plan
    \/ execute_step
    \/ return_result
    \/ overlap_receive
    \/ overlap_finish(SwitchResponses)

SpecOverlap == Init /\ [][NextOverlap]_vars

(***************************************************************************)
(* Properties.                                                             *)
(***************************************************************************)
\* process_user_command has returned to its caller
Returned == pc = "idle" /\ result.kind = "task_result"

\* the operations of the given name the running command has invoked
CallsOf(op) == {n \in 1..Len(calls) : calls[n].op = op}

IsKind(action, kind) == action.t = "dict" /\ DictGet(action, "type", PyNone) = S(kind)

\* the step taken now invokes the device's navigate, with the given success
Navigates(ok) ==
    /\ pc = "executing"
    /\ \E n \in (Len(calls) + 1)..Len(calls') :
         calls'[n].op = "navigate" /\ calls'[n].ok = ok

\* C1: every call of process_user_command returns a Task Result whose
\* final_result is not null.
C1_ResultAlwaysWellFormed ==
    (pc = "idle" /\ cmd > 0) =>
        (result.kind = "task_result" /\ result.final_result # PyNone)

\* C2: once planning has occurred (create_action_plan was called), the logs of
\* the returned Task Result hold at least one entry.
C2_LogsNotEmptyAfterPlanning ==
    (Returned /\ CallsOf("create_action_plan") # {}) => Len(result.logs) >= 1

\* C3: no entry logged while an earlier command was processed is in the trace
\* store, or in the returned logs, of a later command.
C3_TraceScopedToCommand ==
    /\ \A n \in 1..Len(logger_task_logs) : logger_task_logs[n].cmd \notin 1..(cmd - 1)
    /\ \A n \in 1..Len(result.logs) : result.logs[n].cmd \notin 1..(cmd - 1)

\* the case of C4: a plan of a Click step whose click fails and an
\* AnswerDirectly step with a question the provider accepts
C4_Case ==
    /\ Returned
    /\ Len(steps) = 2
    /\ IsKind(steps[1], "click")
    /\ IsKind(steps[2], "answer_directly")
    /\ ~Unsliceable(DictGet(steps[2], "question", user_input))
    /\ \E n \in CallsOf("click") : calls[n].step = 1 /\ ~calls[n].ok

\* C4: after a failing Click step the AnswerDirectly step is still executed
\* and its generate_response output is the returned final_result.
C4_AnswerAfterFailedClick ==
    C4_Case =>
        /\ 2 \in dispatched
        /\ \E n \in CallsOf("generate_response") :
             /\ calls[n].step = 2
             /\ calls[n].arg = DictGet(steps[2], "question", user_input)
             /\ result.final_result = calls[n].out

C4_Witness ==
    /\ C4_Case
    /\ browser = Playwright
    /\ result.final_result = AnswerText(S("what is the capital of France"))

\* C5: whatever happens to a step, every later step of the plan is dispatched.
C5_EveryStepDispatched ==
    (pc = "idle" /\ cmd > 0) => dispatched = 1..Len(steps)

\* C6: a Browse step whose navigation fails leaves processed_url as it was and
\* execution goes on with the next step.
C6_FailedBrowseKeepsUrl ==
    [][Navigates(FALSE) =>
          /\ last_processed_url' = last_processed_url
          /\ pc' = "executing" /\ i' = i + 1]_vars

\* C7: a successful Browse step on a url without scheme records the url
\* navigated to, "https://" + url, as processed_url.
C7_ProcessedUrlIsNormalized ==
    [][(/\ Navigates(TRUE)
        /\ ~StartsWith(DictGet(steps[i], "url", PyNone), Http)
        /\ ~StartsWith(DictGet(steps[i], "url", PyNone), Https))
          => last_processed_url' = Concat(Https, DictGet(steps[i], "url", PyNone))]_vars

\* the model call of create_action_plan failed, or its text does not parse
C8_Case ==
    /\ pc = "planned"
    /\ \/ response.call = "raise"
       \/ ~json_loads(normalize(response.text)).ok

\* C8: for each provider, a failed model call or an unparseable response makes
\* create_action_plan return the plan [answer_directly(question = user input)].
C8_FallbackLaw ==
    C8_Case =>
        /\ ai_client \in ProviderNames
        /\ action_plan = FallbackPlan(user_input)
        /\ \E n \in CallsOf("create_action_plan") : calls[n].out = FallbackPlan(user_input)

C8_Witness ==
    /\ C8_Case
    /\ response.call = "ok"
    /\ response.text # <<>>
    /\ ai_client = "cohere"
    /\ action_plan = FallbackPlan(S("go to example.com"))

\* C9: a response that parses as a JSON object without an `actions` key yields
\* the fallback plan.
C9_NoActionsKeyFallsBack ==
    (/\ pc = "planned"
     /\ response.call = "ok"
     /\ json_loads(normalize(response.text)).ok
     /\ json_loads(normalize(response.text)).val.t = "dict"
     /\ ~HasKey(json_loads(normalize(response.text)).val, "actions"))
        => action_plan = FallbackPlan(user_input)

\* a plan with a well-formed action list: a mapping with a list of mappings
WellFormedPlan(plan) ==
    /\ plan.t = "dict"
    /\ HasKey(plan, "actions")
    /\ plan.v[<<"actions">>].t = "list"
    /\ \A n \in 1..Len(plan.v[<<"actions">>].v) : plan.v[<<"actions">>].v[n].t = "dict"

\* C10: when the returned plan lacks a well-formed action list, no step is
\* executed and the fixed "could not plan" result is returned.
C10_MalformedPlanNotExecuted ==
    (pc = "idle" /\ cmd > 0 /\ ai_client # "None" /\ ~WellFormedPlan(action_plan)) =>
        /\ dispatched = {}
        /\ result = TaskResult(NoPlanResult, result.logs, PyNone, PyNone)

\* the operations of the device the running command has invoked
DeviceCalls ==
    {n \in 1..Len(calls) :
        calls[n].op \in {"navigate", "get_content", "click", "type", "take_screenshot"}}

\* the operations of the provider the running command has invoked
ProviderCalls ==
    {n \in 1..Len(calls) :
        calls[n].op \in {"create_action_plan", "generate_response", "process_content"}}

\* C11: a command received while no provider is active resets the per-command
\* state, invokes no provider and no device operation, and returns the fixed
\* "no provider initialized" result with processed_url and screenshot null.
C11_NoProviderGuard ==
    (pc = "idle" /\ cmd > 0 /\ ai_client = "None") =>
        /\ result = TaskResult(NoProviderResult, <<>>, PyNone, PyNone)
        /\ ProviderCalls = {} /\ DeviceCalls = {}
        /\ dispatched = {}
        /\ current_task_logs = <<>>
        /\ last_processed_url = PyNone /\ last_screenshot = PyNone

C11_Witness ==
    /\ Returned /\ cmd = 1 /\ ai_client = "None"
    /\ user_input = S("go to example.com")
    /\ result.final_result = NoProviderResult

\* the kinds of step that assign final_result
Answering == {S("answer_directly"), S("extract_content"), S("clarify")}

\* the case of C12: the command ran a plan whose action list holds only
\* Browse, Click, Type and unknown-kind steps (or none at all)
C12_Case ==
    /\ Returned
    /\ HasKey(action_plan, "actions")
    /\ action_plan.v[<<"actions">>].t = "list"
    /\ \A n \in 1..Len(steps) :
         /\ steps[n].t = "dict"
         /\ DictGet(steps[n], "type", PyNone) \notin Answering

\* C12: a plan without AnswerDirectly, ExtractContent and Clarify steps
\* returns final_result "Task completed successfully.", whatever the outcome
\* of its steps.
C12_DefaultResultKept ==
    C12_Case => result.final_result = S("Task completed successfully.")

C12_Witness ==
    /\ C12_Case
    /\ Len(steps) = 2
    /\ IsKind(steps[1], "browse") /\ IsKind(steps[2], "type")
    /\ \E n \in CallsOf("navigate") : ~calls[n].ok
    /\ \E n \in CallsOf("type") : ~calls[n].ok
    /\ result.final_result = DefaultResult

\* the case of C13: the plan is one AnswerDirectly step with a question
C13_Case ==
    /\ Returned
    /\ HasKey(action_plan, "actions")
    /\ action_plan.v[<<"actions">>].t = "list"
    /\ Len(steps) = 1
    /\ IsKind(steps[1], "answer_directly")
    /\ DictGet(steps[1], "question", PyNone).t = "str"

\* C13: for a plan of a single AnswerDirectly{question} step the returned
\* final_result is the output of generate_response(question); no device
\* operation is invoked and processed_url and screenshot are null.
C13_ScenarioA ==
    C13_Case =>
        /\ \E n \in CallsOf("generate_response") :
             /\ calls[n].arg = steps[1].v[<<"question">>]
             /\ result.final_result = calls[n].out
        /\ Cardinality(CallsOf("generate_response")) = 1
        /\ DeviceCalls = {}
        /\ result.processed_url = PyNone /\ result.screenshot = PyNone

C13_Witness ==
    /\ C13_Case
    /\ response = NoResponse
    /\ action_plan # FallbackPlan(user_input)
    /\ result.final_result = AnswerText(S("what is the capital of France"))

\* a switch request is answered in this step
SwitchAnswered(statuses) ==
    /\ switches' = switches + 1
    /\ switch_response'.status \in statuses

\* C14: a switch request that is rejected, or whose provider cannot be
\* constructed, leaves ai_client and current_provider_name as they were.
C14_FailedSwitchKeepsHandle ==
    [][SwitchAnswered({"no_provider", "unavailable", "failed"}) =>
          /\ ai_client' = ai_client
          /\ current_provider_name' = current_provider_name]_vars

C14_Witness ==
    /\ switch_response.status = "failed"
    /\ switch_provider = "gemini"
    /\ ai_client = "openai" /\ current_provider_name = "openai"
    /\ CallsOf("generate_response") # {}

\* C15: a switch request naming the provider in use constructs no provider
\* and leaves the handle as it was.
C15_SwitchToActiveIsNoOp ==
    [][(/\ switches' = switches + 1
        /\ switch_provider' = current_provider_name
        /\ switch_provider' = ai_client)
          => /\ ~switch_response'.initializing
             /\ switch_pc' = "idle"
             /\ ai_client' = ai_client
             /\ current_provider_name' = current_provider_name]_vars

C15_Witness ==
    /\ switches = 2
    /\ switch_response.status = "already"
    /\ switch_provider = "gemini"
    /\ ai_client = "gemini" /\ current_provider_name = "gemini"
    /\ config.defaultProvider = "openai"

\* the credential of a provider resolves: its key is in the environment or an
\* api_key is in its configuration
Resolvable(provider) ==
    provider \in environ \/ provider_config_of(config, provider) = "with_key"

\* C16: a switch request is rejected as unavailable exactly when the
\* credential of the named provider does not resolve.
C16_UnavailableIffNoCredential ==
    (switch_response.status # "none" /\ switch_provider # "") =>
        (switch_response.status = "unavailable" <=> ~Resolvable(switch_provider))

\* the url of the last navigation the running command asked for
OwnUrl ==
    IF CallsOf("navigate") = {} THEN PyNone
    ELSE calls[CHOOSE n \in CallsOf("navigate") :
                   \A k \in CallsOf("navigate") : k <= n].arg

\* C17: no two executions of process_user_command are in progress at the
\* same time, and a returned Task Result carries the processed_url of its
\* own command's steps only.
C17_RunExclusion ==
    /\ ~(pc \in {"planning", "planned", "executing"} /\ overlap.pc = "running")
    /\ (Returned /\ result.final_result \notin {NoProviderResult, NoPlanResult})
          => result.processed_url = OwnUrl

\* C18: in every state current_provider_name is the name of the provider
\* instance held in ai_client.
C18_HandleReplacedAtomically ==
    current_provider_name = ai_client

\* the errors of the content-only device
Unsupported ==
    {S("RequestsBrowser does not support clicking elements"),
     S("RequestsBrowser does not support typing text")}

C20_DeviceSelectedOnce ==
    /\ pc = "boot" => (browser = "None" /\ launched = <<>>)
    /\ pc # "boot" =>
          /\ Len(launched) = 1
          /\ browser = IF launched[1] THEN Playwright ELSE Requests

C20_Witness ==
    /\ Returned
    /\ launched = <<FALSE>> /\ browser = Requests
    /\ switch_response.status = "switched"
    /\ \E n \in CallsOf("navigate") : ~calls[n].ok

\* the classes of the registry: the imports of provider_factory.py that succeed
Registered(name) == name \in {"gemini", "openai", "cohere"}

\* the call of create_provider is one of the failure cases: the name is not
\* registered, no credential is found, or the constructor raises
C21_Failure ==
    \/ ~Registered(lower(factory_call.provider_type))
    \/ /\ lower(factory_call.provider_type) \notin environ
       /\ factory_call.config # "with_key"
    \/ ~factory_call.constructed

\* C21: create_provider returns None, and raises nothing, in each failure
\* case, and what it returns otherwise is an instance of the registered
\* class, returned in none of the failure cases.
C21_CreateReturnsNone ==
    factory_call.done =>
        /\ C21_Failure => factory_call.out = "None"
        /\ factory_call.out # "None" =>
               /\ ~C21_Failure
               /\ factory_call.out = lower(factory_call.provider_type)

C21_Witness ==
    /\ factory_call.done
    /\ factory_call.provider_type = "openai"
    /\ "openai" \in environ
    /\ ~factory_call.constructed
    /\ factory_call.out = "None"
    /\ Len(logger_task_logs) = 2

\* the step taken now is one iteration of the loop
Executes == pc = "executing" /\ i <= Len(steps)

\* the operations of the given name invoked in the step taken now
NewCalls(op) == {n \in (Len(calls) + 1)..Len(calls') : calls'[n].op = op}

\* the step taken now ends in the handler of the try block
Faults ==
    \/ Executes /\ pc' = "idle"
    \/ /\ pc = "planned" /\ pc' = "idle"
       /\ Truthy(action_plan) /\ HasKey(action_plan, "actions")

\* C22: when an exception escapes the steps, the Task Result returned carries
\* the apology message and the processed_url and screenshot recorded by the
\* steps executed before.
C22_FaultKeepsUrlAndScreenshot ==
    [][Faults =>
          /\ result'.kind = "task_result"
          /\ result'.final_result =
                S("I encountered an error while processing your request. Please try again.")
          /\ result'.processed_url = last_processed_url
          /\ result'.screenshot = last_screenshot]_vars

C22_Witness ==
    /\ Returned
    /\ dispatched = {1, 2}
    /\ IsKind(steps[1], "browse") /\ steps[2] = PyInt("7")
    /\ result.final_result = ApologyResult
    /\ result.processed_url = ExampleCom
    /\ result.screenshot # PyNone

\* the text without its comment lines: from a "//" outside a string literal
\* to the end of the line
RECURSIVE WithoutCommentLines(_, _, _)
WithoutCommentLines(text, n, inComment) ==
    IF n > Len(text) THEN <<>>
    ELSE IF inComment
         THEN IF IsNL(text[n]) THEN <<text[n]>> \o WithoutCommentLines(text, n + 1, FALSE)
              ELSE WithoutCommentLines(text, n + 1, TRUE)
    ELSE IF text[n].k = "comment" THEN WithoutCommentLines(text, n + 1, TRUE)
    ELSE <<text[n]>> \o WithoutCommentLines(text, n + 1, FALSE)

\* the response is a code fence around an object with a comment line
FencedWithComment(text) ==
    /\ text # <<>> /\ text[1] = Fence /\ text[Len(text)] = Fence
    /\ \E n \in 1..Len(text) : text[n].k = "comment"

\* C23: for a response that is a JSON plan in a code fence with a comment
\* line, create_action_plan returns the plan that strict parsing gives for the
\* payload taken out of the fence and freed of its comment line.
C23_ParseRoundTrip ==
    (pc = "planned" /\ response.call = "ok" /\ FencedWithComment(response.text)) =>
        LET strict == json_loads(WithoutCommentLines(json_match(response.text), 1, FALSE))
        IN  strict.ok /\ action_plan = strict.val

\* C24: the reset at the start of a command leaves the trace store without
\* any entry of before and processed_url and screenshot null, and resetting
\* twice gives the same state as resetting once.
C24_ResetIdempotent ==
    [][cmd' = cmd + 1 =>
          /\ \A n \in 1..Len(logger_task_logs') : logger_task_logs'[n].cmd = cmd'
          /\ current_task_logs' = <<>>
          /\ last_processed_url' = PyNone /\ last_screenshot' = PyNone
          /\ reset_task_state(reset_task_state(TaskState)) = reset_task_state(TaskState)]_vars

\* an operation of the given names invoked in the step taken now failed
FailsNow(ops) == \E n \in (Len(calls) + 1)..Len(calls') : calls'[n].op \in ops /\ ~calls'[n].ok

\* C25: the Task Result carries the last processed_url and the last screenshot
\* recorded during the run; a step whose navigation or screenshot capture
\* fails leaves a value recorded by an earlier step as it was.
C25_LastWriteWins ==
    [][/\ (Executes /\ last_processed_url # PyNone /\ FailsNow({"navigate"}))
            => last_processed_url' = last_processed_url
       /\ (Executes /\ last_screenshot # PyNone
              /\ FailsNow({"navigate", "click", "take_screenshot"}))
            => last_screenshot' = last_screenshot
       /\ (pc = "executing" /\ i > Len(steps) /\ pc' = "idle")
            => /\ result'.processed_url = last_processed_url
               /\ result'.screenshot = last_screenshot]_vars

\* C26: an ExtractContent step whose get_content returns a value, the empty
\* text included, calls process_content and sets final_result to its output;
\* only a null content gives the fixed message; the next step runs either way.
C26_ExtractContent ==
    [][(Executes /\ NewCalls("get_content") # {}) =>
          /\ pc' = "executing" /\ i' = i + 1
          /\ \A n \in NewCalls("get_content") :
                IF calls'[n].out # PyNone
                THEN \E m \in NewCalls("process_content") :
                        /\ calls'[m].arg = calls'[n].out
                        /\ final_result' = calls'[m].out
                ELSE /\ NewCalls("process_content") = {}
                     /\ final_result' = NoContentResult]_vars

\* the step returns the result of a plan of a Clarify step and an
\* AnswerDirectly step with a question
C27_Return ==
    /\ pc = "executing" /\ i > Len(steps) /\ pc' = "idle"
    /\ Len(steps) = 2
    /\ IsKind(steps[1], "clarify") /\ IsKind(steps[2], "answer_directly")

\* C27: a Clarify step sets final_result to its message and the loop goes on
\* with the next step; a later AnswerDirectly step overrides the message in
\* the returned final_result.
C27_ClarifyDoesNotHalt ==
    [][/\ (Executes /\ IsKind(steps[i], "clarify")) =>
            /\ final_result' = DictGet(steps[i], "message",
                                       S("Could you please clarify your request?"))
            /\ pc' = "executing" /\ i' = i + 1
       /\ C27_Return =>
            /\ dispatched = {1, 2}
            /\ \E n \in CallsOf("generate_response") :
                  calls[n].step = 2 /\ result'.final_result = calls[n].out]_vars

C27_Witness ==
    /\ Returned
    /\ Len(steps) = 2
    /\ steps[1] = Act2("type", S("clarify"), "message", S("Which website?"))
    /\ IsKind(steps[2], "answer_directly")
    /\ result.final_result = AnswerText(S("what is the capital of France"))

\* the six kinds of action
Kinds ==
    {S("answer_directly"), S("browse"), S("extract_content"), S("click"), S("type"),
     S("clarify")}

\* the step taken now is on an action of no recognized kind
C28_Case ==
    /\ Executes
    /\ steps[i].t = "dict"
    /\ DictGet(steps[i], "type", PyNone) \notin Kinds

\* C28: an action of no recognized kind is logged as an error and skipped:
\* nothing is invoked for it, final_result, processed_url and screenshot stay
\* as they were and the loop goes on with the next step.
C28_UnknownKindSkipped ==
    [][C28_Case =>
          /\ calls' = calls
          /\ logger_task_logs'[Len(logger_task_logs')].type = "error"
          /\ final_result' = final_result
          /\ last_processed_url' = last_processed_url
          /\ last_screenshot' = last_screenshot
          /\ pc' = "executing" /\ i' = i + 1]_vars

C28_Witness ==
    /\ Returned
    /\ Len(steps) = 2
    /\ steps[1] = Act1("selector", S("body"))
    /\ IsKind(steps[2], "click")
    /\ dispatched = {1, 2}
    /\ CallsOf("click") # {}

\* the step taken now is a Click step without selector or a Type step
\* without selector or text
C29_Case ==
    /\ Executes
    /\ \/ IsKind(steps[i], "click") /\ ~Truthy(DictGet(steps[i], "selector", PyNone))
       \/ /\ IsKind(steps[i], "type")
          /\ \/ ~Truthy(DictGet(steps[i], "selector", PyNone))
             \/ ~Truthy(DictGet(steps[i], "text", PyNone))

\* C29: a Click step without selector, or a Type step without selector or
\* text, is logged as an error and skipped: the device is not called,
\* final_result, processed_url and screenshot stay as they were and the loop
\* goes on with the next step.
C29_MissingArgumentsSkipped ==
    [][C29_Case =>
          /\ calls' = calls
          /\ logger_task_logs'[Len(logger_task_logs')].type = "error"
          /\ final_result' = final_result
          /\ last_processed_url' = last_processed_url
          /\ last_screenshot' = last_screenshot
          /\ pc' = "executing" /\ i' = i + 1]_vars

C29_Witness ==
    /\ Returned
    /\ Len(steps) = 2
    /\ steps[1] = Act1("type", S("click"))
    /\ steps[2] = Act2("type", S("type"), "selector", S("input#search"))
    /\ dispatched = {1, 2}
    /\ calls[Len(calls)].op = "create_action_plan"

\* C30: last_screenshot is written only by a Browse or Click step on the
\* interactive device whose operation and whose capture both succeeded; on
\* the content-only device no screenshot is taken and the field stays null.
C30_ScreenshotWrittenOnlyOnCapture ==
    [][/\ (Executes /\ last_screenshot' # last_screenshot) =>
            /\ browser = Playwright
            /\ IsKind(steps[i], "browse") \/ IsKind(steps[i], "click")
            /\ \E n \in NewCalls("navigate") \cup NewCalls("click") : calls'[n].ok
            /\ \E n \in NewCalls("take_screenshot") :
                  calls'[n].ok /\ last_screenshot' = calls'[n].out
       /\ browser = Requests =>
            /\ NewCalls("take_screenshot") = {}
            /\ last_screenshot' = PyNone
            /\ result'.screenshot = PyNone]_vars

C30_Witness ==
    /\ Returned
    /\ browser = Playwright
    /\ Len(steps) = 2
    /\ IsKind(steps[1], "click") /\ IsKind(steps[2], "type")
    /\ \E n \in CallsOf("type") : ~calls[n].ok
    /\ result.screenshot = screenshot_path([cmd |-> 1, step |-> 1])


\* C31: create_provider takes the key from <PROVIDER>_API_KEY of the
\* environment first and from the api_key of the configuration only when
\* that variable is not set; with both, the constructor gets the
\* environment's.
C31_EnvironmentKeyFirst ==
    (factory_call.done /\ Registered(lower(factory_call.provider_type))) =>
        /\ lower(factory_call.provider_type) \in environ
               => factory_call.api_key = "environ"
        /\ factory_call.api_key = "config"
               => /\ lower(factory_call.provider_type) \notin environ
                  /\ factory_call.config = "with_key"

C31_Witness ==
    /\ factory_call.done
    /\ factory_call.provider_type = "openai"
    /\ "openai" \in environ
    /\ factory_call.config = "with_key"
    /\ factory_call.constructed
    /\ factory_call.out = "openai"
    /\ factory_call.api_key = "environ"


\* the actions of the plan the provider returned
PlanActions == action_plan.v[<<"actions">>].v

\* the kinds of action whose step invokes the operation
KindsInvoking(op) ==
    CASE op = "generate_response" -> {"answer_directly"}
      [] op = "navigate" -> {"browse"}
      [] op \in {"get_content", "process_content"} -> {"extract_content"}
      [] op = "click" -> {"click"}
      [] op = "type" -> {"type"}
      [] op = "take_screenshot" -> {"browse", "click"}
      [] OTHER -> {}

\* a call of the provider has raised instead of returning
CallRaised ==
    \E n \in 1..Len(calls) :
        calls[n].op = "generate_response" /\ ~calls[n].ok /\ calls[n].out = PyNone

\* the "Executing step" entries the logger has kept of the command
StepEntries ==
    {n \in 1..Len(logger_task_logs) :
        /\ logger_task_logs[n].message = "Executing step"
        /\ logger_task_logs[n].cmd = cmd}

\* the calls made by the steps of the loop
StepCalls == {n \in 1..Len(calls) : calls[n].op # "create_action_plan"}

\* the loop of a plan of actions is running, or has run, with every call
\* returned so far
C32_Case ==
    /\ WellFormedPlan(action_plan)
    /\ pc = "executing" \/ (pc = "idle" /\ result.kind = "task_result")
    /\ ~CallRaised

\* the steps taken are those of the plan, in its order, each once
C32_InOrder ==
    C32_Case =>
        /\ steps = PlanActions
        /\ i \in 1..(Len(PlanActions) + 1)
        /\ dispatched = 1..(i - 1)
        /\ Cardinality(StepEntries) = i - 1
        /\ \A n \in StepCalls :
              /\ calls[n].step \in 1..(i - 1)
              /\ \E kind \in KindsInvoking(calls[n].op) :
                    IsKind(PlanActions[calls[n].step], kind)
              /\ \A m \in {k \in StepCalls : k < n} :
                    /\ calls[m].step <= calls[n].step
                    /\ calls[m].step = calls[n].step => calls[m].op # calls[n].op
        /\ pc = "idle" => i = Len(PlanActions) + 1

\* C32: provided every call of the provider and of the device returns, the
\* actions of a plan of length n are dispatched one at a time in the order
\* 1..n of the plan, each exactly once, and the command then returns its
\* result.
C32_PlanOrderIsExecutionOrder ==
    /\ []C32_InOrder
    /\ (pc = "executing" /\ WellFormedPlan(action_plan))
          ~> /\ pc = "idle"
             /\ CallRaised \/ (WellFormedPlan(action_plan)
                                /\ dispatched = 1..Len(PlanActions))

C32_Witness ==
    /\ C32_Case
    /\ pc = "idle"
    /\ Len(PlanActions) = 2
    /\ IsKind(PlanActions[1], "browse")
    /\ IsKind(PlanActions[2], "answer_directly")
    /\ dispatched = {1, 2}
    /\ \E m, n \in StepCalls :
          /\ m < n
          /\ calls[m].op = "navigate" /\ calls[m].step = 1
          /\ calls[n].op = "generate_response" /\ calls[n].step = 2


\* no switch request is part-way through initialize_ai_provider
Sequential == switch_pc = "idle"

\* C33: between the operations of start-up, commands and switch requests
\* taken one after the other, ai_client is None exactly when
\* current_provider_name is None, and otherwise the name is the one the
\* instance was created for.
C33_HandleHalvesAgree ==
    Sequential =>
        /\ ai_client = "None" <=> current_provider_name = "None"
        /\ ai_client # "None" => ai_client = lower(current_provider_name)

C33_Witness ==
    /\ Sequential
    /\ switch_response.status = "switched"
    /\ switch_provider = "openai"
    /\ ai_client = "openai"
    /\ current_provider_name = "openai"
    /\ config.defaultProvider = "gemini"


\* C34: a provider, once active, stays active: no command and no switch
\* request, failed or not, sets ai_client back to None, so the "no provider
\* initialized" result is returned only while none was initialized yet.
C34_ProviderStaysActive ==
    [][/\ ai_client # "None" => ai_client' # "None"
       /\ (result' # result /\ result'.final_result = NoProviderResult)
             => (ai_client = "None" /\ current_provider_name = "None")]_vars

C34_Witness ==
    /\ Returned
    /\ result.final_result # NoProviderResult
    /\ switches = MaxSwitches
    /\ switch_response.status = "failed"
    /\ switch_pc = "idle"
    /\ ai_client = "gemini"


\* the calls of the provider made for the running command
ProviderCallsMade ==
    {n \in 1..Len(calls) :
        calls[n].op \in {"create_action_plan", "generate_response", "process_content"}}

\* C35: the provider instance that made the plan of a command is the one
\* that serves every generate_response and process_content call of that
\* command, also when a switch request is served while the command runs.
C35_OneProviderPerCommand ==
    \A m, n \in ProviderCallsMade : calls[m].ai_client = calls[n].ai_client


\* the operation called on the device now is a navigate that reports failure
NavigateFails ==
    /\ pc = "device"
    /\ Len(calls') = Len(calls) + 1
    /\ calls'[Len(calls')].op = "navigate"
    /\ ~device_result'.success

\* C36: on either device a navigate that reports failure leaves the session
\* as it was: current_url, and the body get_content reads on the
\* content-only device, are those of the last navigation that succeeded.
C36_FailedNavigateKeepsSession ==
    [][NavigateFails => session' = session]_vars


\* the text has no comment: no "//" outside its string literals
Uncommented(text) == \A n \in 1..Len(text) : text[n].k # "comment"

\* the value is a plan object: a mapping whose "actions" is a list
PlanObject(x) ==
    /\ x.t = "dict"
    /\ HasKey(x, "actions")
    /\ x.v[<<"actions">>].t = "list"

\* C37: for a response that is a valid JSON plan object without comments,
\* in a code fence or not, string values with "//" in them included,
\* create_action_plan returns exactly that plan.
C37_ValidPlanPreserved ==
    (pc = "planned" /\ response.call = "ok" /\ Uncommented(response.text)) =>
        LET strict == json_loads(json_match(response.text))
        IN  (strict.ok /\ PlanObject(strict.val)) => action_plan = strict.val


\* the step taken now is a Browse step whose url is missing or empty
C38_Case ==
    /\ Executes
    /\ IsKind(steps[i], "browse")
    /\ ~Truthy(DictGet(steps[i], "url", PyNone))

\* C38: a Browse step without url, or with an empty one, is logged as an
\* error and skipped: the device is not asked to navigate or to take a
\* screenshot, processed_url and screenshot stay as they were and the loop
\* goes on with the next step.
C38_BrowseWithoutUrlSkipped ==
    [][C38_Case =>
          /\ calls' = calls
          /\ session' = session
          /\ logger_task_logs'[Len(logger_task_logs')].type = "error"
          /\ last_processed_url' = last_processed_url
          /\ last_screenshot' = last_screenshot
          /\ final_result' = final_result
          /\ pc' = "executing" /\ i' = i + 1]_vars

C38_Witness ==
    /\ Returned
    /\ Len(steps) = 2
    /\ steps[1] = Act2("type", S("browse"), "url", EmptyStr)
    /\ steps[2] = AnswerDirectly(S("what is the capital of France"))
    /\ dispatched = {1, 2}
    /\ CallsOf("navigate") = {}
    /\ CallsOf("generate_response") # {}
    /\ result.processed_url = PyNone


\* C39: after start-up and any switch requests, the current provider that
\* GET /api/providers reports is null or one of the providers it lists.
C39_CurrentIsListed ==
    observed.current = "None" \/ observed.current \in observed.providers

=============================================================================
